---------------------------- MODULE Spec2Model ----------------------------
(***************************************************************************)
(* A model of the text-to-SQL pipeline: the read-only validator            *)
(* (services/query_validator.py), the SQL cleaning and repair of the three *)
(* service variants, the relevance ranker and the schema catalog.          *)
(*                                                                         *)
(* Python strings are sequences of one-character strings, so that          *)
(* substring tests, regular-expression substitutions, case folding and     *)
(* number formatting are computed character by character as the code does. *)
(***************************************************************************)
EXTENDS Integers, Sequences, FiniteSets, TLC

VARIABLES
    db,          \* the SQLite database behind DatabaseManager.connection
    vPc,         \* validator harness: "call" before execute_safe_query, "done" after
    vQuery,      \* the query argument of execute_safe_query
    vLimit,      \* the limit argument of execute_safe_query
    vSafe,       \* what is_safe_query(vQuery) returned
    vSubmitted,  \* statements handed to cursor.execute by execute_safe_query
    vRet,        \* the (success, payload) pair execute_safe_query returned
    cPc,         \* cleaning harness: "raw", "cleaned", "recleaned"
    cVariant,    \* the service whose cleaner runs: "secure", "basic", "enhanced"
    cRaw,        \* the text the completion returned
    cOnce,       \* the cleaner's output for cRaw
    cTwice,      \* the cleaner's output for cOnce
    catPc,       \* catalog harness: "new", "ready", "failed", "prompted"
    catMode,     \* "privacy" (SecureSchemaInspector) or "open" (SchemaInspector)
    catUnreadable, \* names of the tables whose SELECT raised while the context was built
    catContext,  \* the database context the inspector returned
    catPrompt,   \* the prompt made from catContext
    catCompliance, \* what validate_security_compliance returned on catContext
    rPc,         \* ranker harness: "new", "first", "second"
    rContext,    \* SmartSchemaService.full_context
    rQuestion,   \* user_question
    rMax,        \* max_tables
    rFirst,      \* what the first call returned
    rSecond,     \* what the second call returned
    pPc,         \* pipeline: "ready" for a call, "answered" after one
    pVariant,    \* the service of the last call
    pQuestion,   \* its user_question
    pAsked,      \* whether generate_sql was called and returned
    pCompletion, \* what generate_sql returned: a text or None
    pResult,     \* what process_question returned
    oPc,         \* completion harness: "ready" before generate_sql, "returned" after
    oResponse,   \* what openai.chat.completions.create did: raised, or a response
    oReturn,     \* how generate_sql ended: raised or not, and the value returned
    db_context,  \* SecureTextToSQLService.db_context of the service the app shares
    prompt_context, \* the db_context its prompt_generator was built with
    refPc,       \* refresh_context: "idle", "half" between its two assignments,
                 \* "raised" when it ended with an exception
    refBefore,   \* db_context and the prompt generator's context when it was called
    qPc,         \* a process_question call: "ready", "prompted", "repaired"
    qPromptContext, \* the context the call's prompt was made from
    qFixContext, \* the context the call's attempt_query_fix read
    qFixed,      \* what the call's attempt_query_fix returned
    fPc,         \* repair harness: "call" before attempt_query_fix, "fixed" after
    fVariant,    \* the service whose attempt_query_fix runs
    fContext,    \* its db_context
    fQuery,      \* the sql_query argument
    fError,      \* the error of the failed validation
    fFixed,      \* what attempt_query_fix returned
    connection_, \* DatabaseManager._connection: a connection, or 0 for None
    connState,   \* each sqlite3 connection: "unopened", "open" or "closed"
    tPc,         \* each request thread's place in execute_safe_query and close_db
    tCursor,     \* the connection of the cursor the thread holds, 0 for none
    tQuery,      \* the validated query of the thread's request
    tRet         \* what execute_safe_query returned to the thread

valVars == <<vPc, vQuery, vLimit, vSafe, vSubmitted, vRet>>
cleanVars == <<cPc, cVariant, cRaw, cOnce, cTwice>>
catVars == <<catPc, catMode, catUnreadable, catContext, catPrompt, catCompliance>>
rankVars == <<rPc, rContext, rQuestion, rMax, rFirst, rSecond>>
pipeVars == <<pPc, pVariant, pQuestion, pAsked, pCompletion, pResult>>
aiVars == <<oPc, oResponse, oReturn>>
refVars == <<db_context, prompt_context, refPc, refBefore, qPc, qPromptContext, qFixContext, qFixed>>
fixVars == <<fPc, fVariant, fContext, fQuery, fError, fFixed>>
tdVars == <<connection_, connState, tPc, tCursor, tQuery, tRet>>
vars == <<db, valVars, cleanVars, catVars, rankVars, pipeVars, aiVars, refVars, fixVars,
          tdVars>>

Null == "null"

\* the grave accent, a character that a TLA+ string cannot hold
Backtick == "grave"

\* ------------------------------------------------------------------------
\* Characters and Python str methods
\* ------------------------------------------------------------------------
UpperOf == [a |-> "A", b |-> "B", c |-> "C", d |-> "D", e |-> "E", f |-> "F",
            g |-> "G", h |-> "H", i |-> "I", j |-> "J", k |-> "K", l |-> "L",
            m |-> "M", n |-> "N", o |-> "O", p |-> "P", q |-> "Q", r |-> "R",
            s |-> "S", t |-> "T", u |-> "U", v |-> "V", w |-> "W", x |-> "X",
            y |-> "Y", z |-> "Z"]

LowerOf == [A |-> "a", B |-> "b", C |-> "c", D |-> "d", E |-> "e", F |-> "f",
            G |-> "g", H |-> "h", I |-> "i", J |-> "j", K |-> "k", L |-> "l",
            M |-> "m", N |-> "n", O |-> "o", P |-> "p", Q |-> "q", R |-> "r",
            S |-> "s", T |-> "t", U |-> "u", V |-> "v", W |-> "w", X |-> "x",
            Y |-> "y", Z |-> "z"]

DigitChars == <<"0", "1", "2", "3", "4", "5", "6", "7", "8", "9">>

IsDigit(c) == \E d \in 1..10 : DigitChars[d] = c

\* \w of the re module
IsWordChar(c) == c \in DOMAIN UpperOf \/ c \in DOMAIN LowerOf \/ IsDigit(c) \/ c = "_"

\* \s of the re module, and the characters str.strip() removes
IsSpace(c) == c \in {" ", "\n", "\t"}

UpperChar(c) == IF c \in DOMAIN UpperOf THEN UpperOf[c] ELSE c

LowerChar(c) == IF c \in DOMAIN LowerOf THEN LowerOf[c] ELSE c

\* str.upper()
upper(s) == [i \in 1..Len(s) |-> UpperChar(s[i])]

\* str.lower()
lower(s) == [i \in 1..Len(s) |-> LowerChar(s[i])]

Min(S) == CHOOSE x \in S : \A y \in S : x <= y

Max(S) == CHOOSE x \in S : \A y \in S : x >= y

\* the member of a one-element set: TheOnly({F(x) : x \in {e}}) is F(e)
\* with e evaluated once, as Python evaluates an argument before the call
TheOnly(S) == CHOOSE x \in S : TRUE

\* p occurs in s at index i
MatchAt(s, i, p) ==
    /\ i >= 1
    /\ i + Len(p) - 1 <= Len(s)
    /\ \A k \in 1..Len(p) : s[i + k - 1] = p[k]

\* p in s
Contains(s, p) == \E i \in 1..(Len(s) - Len(p) + 1) : MatchAt(s, i, p)

\* s.startswith(p)
StartsWith(s, p) == MatchAt(s, 1, p)

\* s.endswith(p)
EndsWith(s, p) == MatchAt(s, Len(s) - Len(p) + 1, p)

\* s.lstrip()
lstrip(s) ==
    LET keep == {i \in 1..Len(s) : ~IsSpace(s[i])}
    IN  IF keep = {} THEN <<>> ELSE SubSeq(s, Min(keep), Len(s))

\* s.rstrip()
rstrip(s) ==
    LET keep == {i \in 1..Len(s) : ~IsSpace(s[i])}
    IN  IF keep = {} THEN <<>> ELSE SubSeq(s, 1, Max(keep))

\* s.strip()
strip(s) == lstrip(rstrip(s))

\* s.rstrip(';')
rstripSemicolons(s) ==
    LET keep == {i \in 1..Len(s) : s[i] # ";"}
    IN  IF keep = {} THEN <<>> ELSE SubSeq(s, 1, Max(keep))

\* f"{n}" for a non-negative integer
RECURSIVE IntToStr(_)
IntToStr(n) ==
    IF n < 10 THEN <<DigitChars[n + 1]>>
    ELSE IntToStr(n \div 10) \o <<DigitChars[(n % 10) + 1]>>

DigitVal(c) == (CHOOSE d \in 1..10 : DigitChars[d] = c) - 1

\* the value of a decimal literal
RECURSIVE StrToInt(_)
StrToInt(s) ==
    IF s = <<>> THEN 0
    ELSE 10 * StrToInt(SubSeq(s, 1, Len(s) - 1)) + DigitVal(s[Len(s)])

\* index of the first "\n" at or after i, Len(s) + 1 when there is none
LineEnd(s, i) ==
    LET nl == {j \in i..Len(s) : s[j] = "\n"}
    IN  IF nl = {} THEN Len(s) + 1 ELSE Min(nl)

\* all concatenations of at most n members of frags
RECURSIVE Concats(_, _)
Concats(frags, n) ==
    IF n = 0 THEN {<<>>}
    ELSE LET shorter == Concats(frags, n - 1)
         IN  shorter \cup {a \o f : a \in shorter, f \in frags}

\* ------------------------------------------------------------------------
\* QueryValidator.is_safe_query
\* ------------------------------------------------------------------------

\* re.sub(r'--.*$', '', query, flags=re.MULTILINE), from index i on
RECURSIVE RemoveLineComments(_, _)
RemoveLineComments(s, i) ==
    LET open == {j \in i..Len(s) : MatchAt(s, j, <<"-","-">>)}
    IN  IF open = {} THEN SubSeq(s, i, Len(s))
        ELSE SubSeq(s, i, Min(open) - 1) \o RemoveLineComments(s, LineEnd(s, Min(open)))

\* indices at or after i where a comment that is closed later opens
ClosedBlocks(s, i) ==
    {j \in i..Len(s) : MatchAt(s, j, <<"/","*">>)
                       /\ \E k \in (j + 2)..Len(s) : MatchAt(s, k, <<"*","/">>)}

\* re.sub(r'/\*.*?\*/', '', query, flags=re.DOTALL), from index i on
RECURSIVE RemoveBlockComments(_, _)
RemoveBlockComments(s, i) ==
    LET open == ClosedBlocks(s, i)
    IN  IF open = {} THEN SubSeq(s, i, Len(s))
        ELSE SubSeq(s, i, Min(open) - 1)
             \o RemoveBlockComments(s, Min({k \in (Min(open) + 2)..Len(s) : MatchAt(s, k, <<"*","/">>)}) + 2)

dangerous_keywords ==
    {<<"I","N","S","E","R","T">>, <<"U","P","D","A","T","E">>, <<"D","E","L","E","T","E">>, <<"D","R","O","P">>, <<"C","R","E","A","T","E">>, <<"A","L","T","E","R">>,
     <<"T","R","U","N","C","A","T","E">>, <<"R","E","P","L","A","C","E">>, <<"A","T","T","A","C","H">>, <<"D","E","T","A","C","H">>, <<"P","R","A","G","M","A">>}

ReadOnlyStarts == {<<"S","E","L","E","C","T">>, <<"W","I","T","H">>, <<"E","X","P","L","A","I","N">>}

\* the clean_query of is_safe_query: comments removed, stripped, upper-cased
clean_query(query) ==
    TheOnly({upper(strip(RemoveBlockComments(uncommented, 1)))
             : uncommented \in {RemoveLineComments(query, 1)}})

is_safe_query(query) ==
    \E cq \in {clean_query(query)} :
        /\ \A keyword \in dangerous_keywords : ~Contains(cq, keyword)
        /\ \E start \in ReadOnlyStarts : StartsWith(cq, start)

\* ------------------------------------------------------------------------
\* The SQLite engine behind cursor.execute: tokens, one statement, its effect
\* ------------------------------------------------------------------------

\* the database: per table whether it exists and how many rows it holds;
\* row k of table t is the pair [table |-> t, row |-> k]
TableIds ==
    {"users", "users_sample", "orders", "orders_sample", "table_descriptions",
     "column_descriptions"}

TableName ==
    [users |-> <<"u","s","e","r","s">>, users_sample |-> <<"u","s","e","r","s","_","s","a","m","p","l","e">>, orders |-> <<"o","r","d","e","r","s">>,
     orders_sample |-> <<"o","r","d","e","r","s","_","s","a","m","p","l","e">>,
     table_descriptions |-> <<"t","a","b","l","e","_","d","e","s","c","r","i","p","t","i","o","n","s">>,
     column_descriptions |-> <<"c","o","l","u","m","n","_","d","e","s","c","r","i","p","t","i","o","n","s">>]

TableColumns ==
    [users |-> <<<<"i","d">>, <<"n","a","m","e">>, <<"c","r","e","d","i","t","_","l","i","m","i","t">>>>,
     users_sample |-> <<<<"i","d">>, <<"n","a","m","e">>, <<"c","r","e","d","i","t","_","l","i","m","i","t">>>>,
     orders |-> <<<<"i","d">>, <<"u","s","e","r","_","i","d">>, <<"t","o","t","a","l">>>>,
     orders_sample |-> <<<<"i","d">>, <<"u","s","e","r","_","i","d">>, <<"t","o","t","a","l">>>>,
     table_descriptions |-> <<<<"t","a","b","l","e","_","n","a","m","e">>, <<"d","e","s","c","r","i","p","t","i","o","n">>>>,
     column_descriptions |-> <<<<"t","a","b","l","e","_","n","a","m","e">>, <<"c","o","l","u","m","n","_","n","a","m","e">>, <<"d","e","s","c","r","i","p","t","i","o","n">>>>]

\* the rows of table_descriptions, when it holds any
TableDescriptions ==
    [users |-> <<"c","u","s","t","o","m","e","r"," ","a","c","c","o","u","n","t","s">>,
     users_sample |-> <<>>,
     orders |-> <<"c","u","s","t","o","m","e","r"," ","p","u","r","c","h","a","s","e","s">>,
     orders_sample |-> <<>>,
     table_descriptions |-> <<>>,
     column_descriptions |-> <<>>]

\* the description column of the rows of column_descriptions, when it holds any
ColumnDescriptions ==
    [users |-> <<<<"n","a","m","e"," ","o","f"," ","t","h","e"," ","c","u","s","t","o","m","e","r">>>>,
     users_sample |-> <<>>,
     orders |-> <<<<"t","o","t","a","l"," ","a","m","o","u","n","t">>, <<"t","h","e"," ","c","u","s","t","o","m","e","r">>>>,
     orders_sample |-> <<>>,
     table_descriptions |-> <<>>,
     column_descriptions |-> <<>>]

\* the order of the tables in sqlite_master
CatalogOrder ==
    <<"users", "users_sample", "orders", "orders_sample", "table_descriptions",
      "column_descriptions">>

UsersRows == 150

SampleRows == 1

Absent == [exists |-> FALSE, rows |-> 0]

Holding(n) == [exists |-> TRUE, rows |-> n]

\* the database the pipeline starts on: orders has no mock table
InitialDb ==
    [users |-> Holding(UsersRows), users_sample |-> Holding(SampleRows),
     orders |-> Holding(SampleRows), orders_sample |-> Absent,
     table_descriptions |-> Holding(SampleRows), column_descriptions |-> Absent]

LitToken == <<"'">>

BadToken == <<"'", "?">>

\* index after the comment opened before i: after its closing "*/", or the end
BlockEnd(s, i) ==
    LET close == {j \in i..Len(s) : MatchAt(s, j, <<"*","/">>)}
    IN  IF close = {} THEN Len(s) + 1 ELSE Min(close) + 2

\* index of the quote closing the literal opened before i, Len(s) + 1 if none
QuoteEnd(s, i) ==
    LET q == {j \in i..Len(s) : s[j] = "'"}
    IN  IF q = {} THEN Len(s) + 1 ELSE Min(q)

\* index after the word starting at i
WordEnd(s, i) ==
    LET stop == {j \in i..Len(s) : ~IsWordChar(s[j])}
    IN  IF stop = {} THEN Len(s) + 1 ELSE Min(stop)

\* index of the first character at or after i that is not white space
SkipSpace(s, i) ==
    LET stop == {j \in i..Len(s) : ~IsSpace(s[j])}
    IN  IF stop = {} THEN Len(s) + 1 ELSE Min(stop)

\* SQLite's tokenizer: white space and comments skipped, a string literal is
\* one token, a word is one token, any other character is a token of its own
\* (a "/*" that ends the input opens no comment)
RECURSIVE SqlTokens(_, _)
SqlTokens(s, from) ==
    LET i == SkipSpace(s, from)
    IN  IF i > Len(s) THEN <<>>
        ELSE IF MatchAt(s, i, <<"-","-">>) THEN SqlTokens(s, LineEnd(s, i))
        ELSE IF MatchAt(s, i, <<"/","*">>) /\ i + 2 <= Len(s)
             THEN SqlTokens(s, BlockEnd(s, i + 2))
        ELSE IF s[i] = "'"
             THEN IF QuoteEnd(s, i + 1) > Len(s) THEN <<BadToken>>
                  ELSE <<LitToken>> \o SqlTokens(s, QuoteEnd(s, i + 1) + 1)
        ELSE IF IsWordChar(s[i])
             THEN <<SubSeq(s, i, WordEnd(s, i) - 1)>> \o SqlTokens(s, WordEnd(s, i))
        ELSE <<<<s[i]>>>> \o SqlTokens(s, i + 1)

\* the words of the grammar below that SQLite never reads as a name
ReservedWords ==
    {<<"S","E","L","E","C","T">>, <<"F","R","O","M">>, <<"L","I","M","I","T">>, <<"A","S">>, <<"V","A","L","U","E","S">>, <<"D","E","L","E","T","E">>, <<"D","R","O","P">>,
     <<"T","A","B","L","E">>}

IsKw(tok, kw) == upper(tok) = kw

IsNumber(tok) == tok # <<>> /\ \A i \in 1..Len(tok) : IsDigit(tok[i])

IsIdent(tok) ==
    /\ tok # <<>>
    /\ \A i \in 1..Len(tok) : IsWordChar(tok[i])
    /\ ~IsDigit(tok[1])
    /\ upper(tok) \notin ReservedWords

\* a result column: *, a literal, a number or a column name
IsItem(tok) == tok = <<"*">> \/ tok = LitToken \/ IsNumber(tok) \/ IsIdent(tok)

\* index of the ";" that ends the first statement, 0 when there is none
RECURSIVE SemicolonAt(_, _)
SemicolonAt(s, from) ==
    LET mark == {j \in from..Len(s) :
                    \/ s[j] = ";"
                    \/ s[j] = "'"
                    \/ MatchAt(s, j, <<"-","-">>)
                    \/ MatchAt(s, j, <<"/","*">>) /\ j + 2 <= Len(s)}
        i == IF mark = {} THEN 0 ELSE Min(mark)
    IN  IF i = 0 THEN 0
        ELSE IF s[i] = ";" THEN i
        ELSE IF s[i] = "'" THEN SemicolonAt(s, QuoteEnd(s, i + 1) + 1)
        ELSE IF s[i] = "-" THEN SemicolonAt(s, LineEnd(s, i))
        ELSE SemicolonAt(s, BlockEnd(s, i + 2))

\* the sqlite3 module's look at what follows the first statement: white
\* space and comments (closed or not) are nothing, anything else is SQL
RECURSIVE NothingFollows(_, _)
NothingFollows(s, from) ==
    LET i == SkipSpace(s, from)
    IN  IF i > Len(s) THEN TRUE
        ELSE IF MatchAt(s, i, <<"-","-">>) THEN NothingFollows(s, LineEnd(s, i))
        ELSE IF MatchAt(s, i, <<"/","*">>) THEN NothingFollows(s, BlockEnd(s, i + 2))
        ELSE FALSE

\* EXPLAIN and EXPLAIN QUERY PLAN
ExplainLen(t) ==
    IF Len(t) >= 3 /\ IsKw(t[1], <<"E","X","P","L","A","I","N">>) /\ IsKw(t[2], <<"Q","U","E","R","Y">>) /\ IsKw(t[3], <<"P","L","A","N">>)
    THEN 3
    ELSE IF Len(t) >= 1 /\ IsKw(t[1], <<"E","X","P","L","A","I","N">>) THEN 1 ELSE 0

\* WITH name AS (VALUES (item)) and WITH name AS (SELECT item); -1: malformed
WithLen(t) ==
    IF ~(Len(t) >= 1 /\ IsKw(t[1], <<"W","I","T","H">>)) THEN 0
    ELSE IF /\ Len(t) >= 9 /\ IsIdent(t[2]) /\ IsKw(t[3], <<"A","S">>) /\ t[4] = <<"(">>
            /\ IsKw(t[5], <<"V","A","L","U","E","S">>) /\ t[6] = <<"(">> /\ IsItem(t[7]) /\ ~IsIdent(t[7])
            /\ t[8] = <<")">> /\ t[9] = <<")">>
         THEN 9
    ELSE IF /\ Len(t) >= 7 /\ IsIdent(t[2]) /\ IsKw(t[3], <<"A","S">>) /\ t[4] = <<"(">>
            /\ IsKw(t[5], <<"S","E","L","E","C","T">>) /\ IsItem(t[6]) /\ ~IsIdent(t[6]) /\ t[7] = <<")">>
         THEN 7
    ELSE -1

\* the tables a name resolves to (SQLite compares names case-insensitively)
Resolve(database, tok) ==
    {id \in TableIds : database[id].exists /\ upper(TableName[id]) = upper(tok)}

HasColumn(id, tok) ==
    \E c \in 1..Len(TableColumns[id]) : upper(TableColumns[id][c]) = upper(tok)

SyntaxError == [err |-> "syntax error", name |-> <<>>]

NoSuchTable(tok) == [err |-> "no such table", name |-> tok]

NoSuchColumn(tok) == [err |-> "no such column", name |-> tok]

Prepared(kind, table, limit) ==
    [err |-> "none", name |-> <<>>, kind |-> kind, table |-> table, limit |-> limit]

\* [LIMIT n] at the end of a statement: the limit, -1 for none, -2 if malformed
LimitClause(r) ==
    IF r = <<>> THEN -1
    ELSE IF Len(r) = 2 /\ IsKw(r[1], <<"L","I","M","I","T">>) /\ IsNumber(r[2]) THEN StrToInt(r[2])
    ELSE -2

\* tokens of an optional alias after a table name
AliasLen(r) == IF Len(r) >= 1 /\ IsIdent(r[1]) THEN 1 ELSE 0

\* SELECT item [FROM table [alias]] [LIMIT n]
PrepareSelect(database, b) ==
    IF Len(b) >= 4 /\ IsKw(b[3], <<"F","R","O","M">>)
    THEN LET r == SubSeq(b, 5, Len(b))
             lim == LimitClause(SubSeq(r, AliasLen(r) + 1, Len(r)))
         IN  IF ~IsIdent(b[4]) \/ lim = -2 THEN SyntaxError
             ELSE IF Resolve(database, b[4]) = {} THEN NoSuchTable(b[4])
             ELSE LET id == CHOOSE x \in Resolve(database, b[4]) : TRUE
                  IN  IF IsIdent(b[2]) /\ ~HasColumn(id, b[2]) THEN NoSuchColumn(b[2])
                      ELSE Prepared("select", id, lim)
    ELSE LET lim == LimitClause(SubSeq(b, 3, Len(b)))
         IN  IF lim = -2 THEN SyntaxError
             ELSE IF IsIdent(b[2]) THEN NoSuchColumn(b[2])
             ELSE Prepared("select", Null, lim)

\* DELETE FROM table [LIMIT n]
PrepareDelete(database, b) ==
    LET lim == LimitClause(SubSeq(b, 4, Len(b)))
    IN  IF ~IsIdent(b[3]) \/ lim = -2 THEN SyntaxError
        ELSE IF Resolve(database, b[3]) = {} THEN NoSuchTable(b[3])
        ELSE Prepared("delete", CHOOSE x \in Resolve(database, b[3]) : TRUE, lim)

\* SELECT item AS alias ...: the statement without the alias
WithoutItemAlias(b) ==
    IF Len(b) >= 4 /\ IsKw(b[3], <<"A","S">>) /\ IsIdent(b[4])
    THEN SubSeq(b, 1, 2) \o SubSeq(b, 5, Len(b))
    ELSE b

\* the statement body after EXPLAIN and WITH: what sqlite3_prepare makes of it
PrepareBody(database, b, withCte) ==
    IF Len(b) >= 2 /\ IsKw(b[1], <<"S","E","L","E","C","T">>) /\ IsItem(b[2])
    THEN PrepareSelect(database, WithoutItemAlias(b))
    ELSE IF Len(b) >= 3 /\ IsKw(b[1], <<"D","E","L","E","T","E">>) /\ IsKw(b[2], <<"F","R","O","M">>)
    THEN PrepareDelete(database, b)
    ELSE IF /\ Len(b) = 3 /\ ~withCte /\ IsKw(b[1], <<"D","R","O","P">>) /\ IsKw(b[2], <<"T","A","B","L","E">>)
            /\ IsIdent(b[3])
    THEN IF Resolve(database, b[3]) = {} THEN NoSuchTable(b[3])
         ELSE Prepared("drop", CHOOSE x \in Resolve(database, b[3]) : TRUE, -1)
    ELSE SyntaxError

\* the statement of the tokens t, after its EXPLAIN and WITH prefixes
PrepareTokens(database, t) ==
    LET e == ExplainLen(t)
        t1 == SubSeq(t, e + 1, Len(t))
        w == WithLen(t1)
        body == SubSeq(t1, w + 1, Len(t1))
        p == IF w = -1 THEN SyntaxError ELSE PrepareBody(database, body, w > 0)
    IN  p @@ [explain |-> e > 0]

\* the first statement of sql prepared, and a second one refused
PrepareFirst(database, sql, semi) ==
    TheOnly({IF p.err = "none" /\ semi # 0 /\ ~NothingFollows(sql, semi + 1)
             THEN [err |-> "one statement at a time", name |-> <<>>,
                   explain |-> p.explain]
             ELSE p
             : p \in {PrepareTokens(database, t)
                      : t \in {SqlTokens(IF semi = 0 THEN sql ELSE SubSeq(sql, 1, semi - 1), 1)}}})

\* sqlite3's statement creation: prepare the first statement, then refuse a
\* second one ("You can only execute one statement at a time.")
Prepare(database, sql) ==
    TheOnly({PrepareFirst(database, text, SemicolonAt(text, 1)) : text \in {sql}})

\* rows of the listing an EXPLAIN returns instead of running its statement
ExplainRows == 9

\* rows a prepared statement returns
RowsReturned(database, p) ==
    LET rows == IF p.table = Null THEN 1 ELSE database[p.table].rows
    IN  IF p.explain THEN ExplainRows
        ELSE IF p.kind # "select" THEN 0
        ELSE IF p.limit >= 0 /\ p.limit < rows THEN p.limit ELSE rows

\* the database after the prepared statement ran
DbAfter(database, p) ==
    IF p.err # "none" \/ p.explain THEN database
    ELSE IF p.kind = "delete"
    THEN [database EXCEPT ![p.table].rows =
              IF p.limit >= 0 /\ p.limit < @ THEN @ - p.limit ELSE 0]
    ELSE IF p.kind = "drop"
    THEN [database EXCEPT ![p.table] = Absent]
    ELSE database

\* ------------------------------------------------------------------------
\* QueryValidator.validate_syntax and QueryValidator.execute_safe_query
\* ------------------------------------------------------------------------
DefaultLimit == 100

\* EXPLAIN QUERY PLAN {query}: (is_valid, error)
validate_syntax(database, query) ==
    TheOnly({IF p.err = "none" THEN [is_valid |-> TRUE, error |-> Null]
             ELSE [is_valid |-> FALSE, error |-> [err |-> p.err, name |-> p.name]]
             : p \in {Prepare(database, <<"E","X","P","L","A","I","N"," ","Q","U","E","R","Y"," ","P","L","A","N"," ">> \o query)}})

\* the statement execute_safe_query hands to the engine: LIMIT added when
\* 'LIMIT' is not in query.upper() and the query starts with SELECT
WithLimit(query, limit) ==
    IF ~Contains(upper(query), <<"L","I","M","I","T">>) /\ StartsWith(upper(strip(query)), <<"S","E","L","E","C","T">>)
    THEN rstripSemicolons(query) \o <<" ","L","I","M","I","T"," ">> \o IntToStr(limit)
    ELSE query

\* what execute_safe_query returns once the engine has prepared stmt as p
Executed(database, stmt, p) ==
    IF p.err # "none"
    THEN [success |-> FALSE, error |-> "SQL Error", row_count |-> 0,
          query |-> Null, submitted |-> <<stmt>>, db |-> database]
    ELSE [success |-> TRUE, error |-> Null,
          row_count |-> RowsReturned(database, p),
          query |-> stmt, submitted |-> <<stmt>>,
          db |-> DbAfter(database, p)]

\* (success, payload), the statements submitted and the database afterwards
execute_safe_query(database, query, limit) ==
    IF ~is_safe_query(query)
    THEN [success |-> FALSE, error |-> "Query contains unsafe operations",
          row_count |-> 0, query |-> Null, submitted |-> <<>>, db |-> database]
    ELSE TheOnly({TheOnly({Executed(database, stmt, p) : p \in {Prepare(database, stmt)}})
                  : stmt \in {WithLimit(query, limit)}})

\* ------------------------------------------------------------------------
\* SpecValidator: execute_safe_query called on every query of a bounded set
\* ------------------------------------------------------------------------
MaxQueryFrags == 2

\* a cap below the row count of every table but the mock one
SmallLimit == 3

QueryFrags ==
    {<<"S","E","L","E","C","T"," ","n","a","m","e"," ","F","R","O","M"," ","u","s","e","r","s">>, <<"S","E","L","E","C","T"," ","c","r","e","d","i","t","_","l","i","m","i","t"," ","F","R","O","M"," ","u","s","e","r","s">>,
     <<"s","e","l","e","c","t"," ","*"," ","f","r","o","m"," ","U","S","E","R","S">>, <<"W","I","T","H"," ","x"," ","A","S"," ","(","V","A","L","U","E","S","(","'","-","-","'",")",")"," ">>,
     <<"D","E","L","E","T","E"," ","F","R","O","M"," ","u","s","e","r","s">>, <<"D","R","O","P"," ","T","A","B","L","E"," ","u","s","e","r","s">>, <<" ","L","I","M","I","T"," ","5">>, <<";">>, <<" ">>,
     <<" ","-","-"," ">>, <<"/","*">>, <<"*","/">>, <<"E","X","P","L","A","I","N"," ">>}

Queries == Concats(QueryFrags, MaxQueryFrags)

Limits == {DefaultLimit, SmallLimit}

NoRet == [success |-> FALSE, error |-> Null, row_count |-> 0, query |-> Null]

\* the variables of the cleaning harness while another specification runs
CleanIdle ==
    /\ cPc = "idle"
    /\ cVariant = "secure"
    /\ cRaw = <<>>
    /\ cOnce = <<>>
    /\ cTwice = <<>>

\* the variables of the request threads while another specification runs
TeardownIdle ==
    /\ connection_ = 0
    /\ connState = <<>>
    /\ tPc = <<>>
    /\ tCursor = <<>>
    /\ tQuery = <<>>
    /\ tRet = <<>>

\* the variables of the repair harness while another specification runs
RepairIdle ==
    /\ fPc = "idle"
    /\ fVariant = "secure"
    /\ fContext = [ok |-> FALSE]
    /\ fQuery = <<>>
    /\ fError = [err |-> "none"]
    /\ fFixed = <<>>

\* the variables of the shared service while another specification runs
RefreshIdle ==
    /\ db_context = [ok |-> FALSE]
    /\ prompt_context = [ok |-> FALSE]
    /\ refPc = "off"
    /\ refBefore = <<>>
    /\ qPc = "off"
    /\ qPromptContext = [ok |-> FALSE]
    /\ qFixContext = [ok |-> FALSE]
    /\ qFixed = <<>>

\* the variables of the completion harness while another specification runs
OpenAIIdle ==
    /\ oPc = "idle"
    /\ oResponse = [kind |-> "none"]
    /\ oReturn = [raised |-> FALSE]

\* the variables of the pipeline while another specification runs
PipelineIdle ==
    /\ pPc = "idle"
    /\ pVariant = "secure"
    /\ pQuestion = <<>>
    /\ pAsked = FALSE
    /\ pCompletion = <<>>
    /\ pResult = [success |-> FALSE]

\* the variables of the ranker harness while another specification runs
RankIdle ==
    /\ rPc = "idle"
    /\ rContext = [ok |-> FALSE]
    /\ rQuestion = <<>>
    /\ rMax = 0
    /\ rFirst = <<>>
    /\ rSecond = <<>>

\* the variables of the catalog harness while another specification runs
CatalogIdle ==
    /\ catPc = "idle"
    /\ catMode = "privacy"
    /\ catUnreadable = {}
    /\ catContext = [ok |-> FALSE]
    /\ catPrompt = [question |-> <<>>]
    /\ catCompliance = [security_level |-> "none"]

\* the variables of the validator harness while another specification runs
ValidatorIdle ==
    /\ vPc = "idle"
    /\ vQuery = <<>>
    /\ vLimit = DefaultLimit
    /\ vSafe = FALSE
    /\ vSubmitted = <<>>
    /\ vRet = NoRet

InitValidator ==
    /\ db = InitialDb
    /\ PipelineIdle
    /\ OpenAIIdle
    /\ RefreshIdle
    /\ RepairIdle
    /\ TeardownIdle
    /\ vPc = "call"
    /\ vQuery \in Queries
    /\ vLimit \in Limits
    /\ vSafe = FALSE
    /\ vSubmitted = <<>>
    /\ vRet = NoRet
    /\ CleanIdle
    /\ CatalogIdle
    /\ RankIdle

ExecuteSafeQuery ==
    /\ vPc = "call"
    /\ \E r \in {execute_safe_query(db, vQuery, vLimit)} :
           /\ vSafe' = is_safe_query(vQuery)
           /\ vSubmitted' = r.submitted
           /\ vRet' = [success |-> r.success, error |-> r.error,
                       row_count |-> r.row_count, query |-> r.query]
           /\ db' = r.db
    /\ vPc' = "done"
    /\ UNCHANGED <<tdVars, fixVars, refVars, aiVars, vQuery, vLimit, cleanVars, catVars, rankVars, pipeVars>>

NextValidator == ExecuteSafeQuery

SpecValidator == InitValidator /\ [][NextValidator]_vars

\* ------------------------------------------------------------------------
\* Properties of the validator
\* ------------------------------------------------------------------------

\* the statement has a blocklisted keyword as a token of its own, outside
\* comments and string literals
HasDangerousToken(query) ==
    LET t == SqlTokens(query, 1)
    IN  \E k \in 1..Len(t) : upper(t[k]) \in dangerous_keywords

\* the engine would run the statement and it writes: a DELETE or a DROP
NotReadOnly(database, query) ==
    LET p == Prepare(database, query)
    IN  p.err = "none" /\ ~p.explain /\ p.kind \in {"delete", "drop"}

\* the places of the LIMIT keywords among the tokens of a statement
LimitsAt(t) == {k \in 1..Len(t) : IsKw(t[k], <<"L","I","M","I","T">>)}

\* the statement has one LIMIT clause and its cap is limit
HasOneLimit(t, limit) ==
    /\ Cardinality(LimitsAt(t)) = 1
    /\ \A k \in LimitsAt(t) : k < Len(t) /\ t[k + 1] = IntToStr(limit)

\* C1: every statement that contains INSERT, UPDATE, DELETE, DROP, CREATE,
\* ALTER, TRUNCATE, REPLACE, ATTACH, DETACH or PRAGMA as a bare token, in
\* any letter case and anywhere, is refused by is_safe_query.
C1_DangerousTokenRefused ==
    vPc = "done" /\ HasDangerousToken(vQuery) => ~vSafe

\* C3: execute_safe_query submits a statement to the engine only if
\* is_safe_query accepts it, and a statement that is not read-only gets the
\* failure 'Query contains unsafe operations', no call of the engine and an
\* unchanged database.
C3_WritesNeverReachEngine ==
    vPc = "done" =>
        /\ vSubmitted # <<>> => vSafe
        /\ NotReadOnly(InitialDb, vQuery) =>
               /\ ~vRet.success
               /\ vRet.error = "Query contains unsafe operations"
               /\ vSubmitted = <<>>
               /\ db = InitialDb

\* C6: for a statement that passes the safety check, begins with SELECT and
\* has no LIMIT clause, the statement submitted to the engine has exactly
\* one LIMIT clause, its cap is the limit argument, and row_count is at most
\* that cap.
C6_CapInjected ==
    (/\ vPc = "done"
     /\ vSafe
     /\ StartsWith(upper(strip(vQuery)), <<"S","E","L","E","C","T">>)
     /\ LimitsAt(SqlTokens(vQuery, 1)) = {})
    => /\ Len(vSubmitted) = 1
       /\ HasOneLimit(SqlTokens(vSubmitted[1], 1), vLimit)
       /\ vRet.row_count <= vLimit

\* ------------------------------------------------------------------------
\* Cleaning of the completion's text
\* ------------------------------------------------------------------------

\* str.split(sep) for a one-character separator
RECURSIVE SplitOn(_, _)
SplitOn(s, sep) ==
    LET at == {i \in 1..Len(s) : s[i] = sep}
    IN  IF at = {} THEN <<s>>
        ELSE <<SubSeq(s, 1, Min(at) - 1)>> \o SplitOn(SubSeq(s, Min(at) + 1, Len(s)), sep)

\* str.split(): the words between runs of white space
RECURSIVE SplitWords(_)
SplitWords(s) ==
    LET t == lstrip(s)
        sp == {i \in 1..Len(t) : IsSpace(t[i])}
        e == IF sp = {} THEN Len(t) + 1 ELSE Min(sp)
    IN  IF t = <<>> THEN <<>>
        ELSE <<SubSeq(t, 1, e - 1)>> \o SplitWords(SubSeq(t, e, Len(t)))

\* ' '.join(parts)
RECURSIVE JoinSpace(_)
JoinSpace(parts) ==
    IF parts = <<>> THEN <<>>
    ELSE IF Len(parts) = 1 THEN parts[1]
    ELSE parts[1] \o <<" ">> \o JoinSpace(Tail(parts))

\* re.sub(fence + r'\s*', '', s) from index i on, with re.IGNORECASE when
\* ignorecase
RECURSIVE RemoveFence(_, _, _, _)
RemoveFence(s, i, fence, ignorecase) ==
    LET at == {j \in i..Len(s) : MatchAt(IF ignorecase THEN lower(s) ELSE s, j, fence)}
    IN  IF at = {} THEN SubSeq(s, i, Len(s))
        ELSE SubSeq(s, i, Min(at) - 1)
             \o RemoveFence(s, SkipSpace(s, Min(at) + Len(fence)), fence, ignorecase)

\* the markdown fences: the one tagged sql first, then the bare one
RemoveFences(s, ignorecase) ==
    RemoveFence(RemoveFence(s, 1, <<Backtick,Backtick,Backtick,"s","q","l">>, ignorecase), 1, <<Backtick,Backtick,Backtick>>, FALSE)

StartsWithAny(s, prefixes) == \E p \in prefixes : StartsWith(s, p)

ProsePrefixes == {<<"-","-">>, <<"N","o","t","e",":">>, <<"E","x","p","l","a","n","a","t","i","o","n",":">>, <<"H","e","r","e">>, <<"T","h","i","s">>}

\* the loop over the lines: a line starting a read-only statement turns
\* in_sql on, prose and empty lines are dropped, a dropped line ending in
\* ";" is kept and ends the loop
RECURSIVE SqlLines(_, _, _)
SqlLines(lines, k, in_sql) ==
    IF k > Len(lines) THEN <<>>
    ELSE LET line == strip(lines[k])
         IN  IF StartsWithAny(upper(line), ReadOnlyStarts)
             THEN <<line>> \o SqlLines(lines, k + 1, TRUE)
             ELSE IF in_sql /\ line # <<>> /\ ~StartsWithAny(line, ProsePrefixes)
             THEN <<line>> \o SqlLines(lines, k + 1, in_sql)
             ELSE IF in_sql /\ EndsWith(line, <<";">>)
             THEN <<line>>
             ELSE SqlLines(lines, k + 1, in_sql)

\* ' '.join(sql_lines) if sql_lines else sql
KeepSqlLines(sql) ==
    LET sql_lines == SqlLines(SplitOn(sql, "\n"), 1, FALSE)
    IN  IF sql_lines # <<>> THEN JoinSpace(sql_lines) ELSE sql

mock_suffix == <<"_","s","a","m","p","l","e">>

\* the word with the mock suffix cut off once, if it ends in the suffix and
\* is longer than it
WithoutMockSuffix(word) ==
    IF Len(word) > Len(mock_suffix) /\ EndsWith(lower(word), mock_suffix)
    THEN SubSeq(word, 1, Len(word) - Len(mock_suffix))
    ELSE word

\* re.sub(r'\b(\w+)_sample\b', r'\1', s, flags=re.IGNORECASE) from index i
\* on: a match is a whole word, the greedy \w+ takes all of it but the last
\* suffix
RECURSIVE StripMockSuffix(_, _)
StripMockSuffix(s, i) ==
    LET starts == {j \in i..Len(s) : IsWordChar(s[j])}
    IN  IF starts = {} THEN SubSeq(s, i, Len(s))
        ELSE SubSeq(s, i, Min(starts) - 1)
             \o WithoutMockSuffix(SubSeq(s, Min(starts), WordEnd(s, Min(starts)) - 1))
             \o StripMockSuffix(s, WordEnd(s, Min(starts)))

\* re.sub(r'^.*?(?=SELECT|WITH|EXPLAIN)', '', s, flags=re.IGNORECASE | re.DOTALL):
\* the text before the first keyword goes; when the text starts with a
\* keyword the match there is empty, and the retry at the same place, which
\* has to be a longer one, takes the text up to the next keyword
RemovePrefix(s) ==
    LET at == {k \in 1..Len(s) : \E kw \in ReadOnlyStarts : MatchAt(upper(s), k, kw)}
        later == at \ {1}
    IN  IF at = {} THEN s
        ELSE IF 1 \notin at THEN SubSeq(s, Min(at), Len(s))
        ELSE IF later = {} THEN s
        ELSE SubSeq(s, Min(later), Len(s))

\* SecureTextToSQLService.clean_and_secure_sql
clean_and_secure_sql(generated_sql) ==
    LET fenced == RemoveFences(strip(generated_sql), TRUE)
        kept == KeepSqlLines(fenced)
        real == StripMockSuffix(kept, 1)
        cut == RemovePrefix(real)
        flat == JoinSpace(SplitWords(cut))
        ended == IF EndsWith(rstrip(flat), <<";">>) THEN flat ELSE rstrip(flat) \o <<";">>
    IN  strip(ended)

\* TextToSQLService.clean_generated_sql
clean_generated_sql_basic(generated_sql) ==
    strip(RemovePrefix(KeepSqlLines(RemoveFences(strip(generated_sql), FALSE))))

\* EnhancedTextToSQLService.clean_generated_sql
clean_generated_sql_enhanced(generated_sql) ==
    strip(RemoveFences(strip(generated_sql), FALSE))

\* ------------------------------------------------------------------------
\* SpecClean: each service's cleaner applied to a raw text, then to its own
\* output
\* ------------------------------------------------------------------------
Variants == {"secure", "basic", "enhanced"}

CleanOf(variant, text) ==
    IF variant = "secure" THEN clean_and_secure_sql(text)
    ELSE IF variant = "basic" THEN clean_generated_sql_basic(text)
    ELSE clean_generated_sql_enhanced(text)

MaxRawFrags == 3

RawFrags ==
    {<<"S","E","L","E","C","T"," ","*"," ","F","R","O","M"," ","u","s","e","r","s">>, <<"_","s","a","m","p","l","e">>, <<Backtick,Backtick,Backtick,"s","q","l","\n">>, <<Backtick,Backtick,Backtick>>, <<"\n">>, <<";">>,
     <<"H","e","r","e"," ","i","s"," ","t","h","e"," ","q","u","e","r","y",":"," ">>, <<" ","W","H","E","R","E"," ","i","d"," ","I","N"," ","(","s","e","l","e","c","t"," ","i","d"," ","f","r","o","m"," ","u","s","e","r","s",")">>}

\* statements a completion wraps in a code fence
FencedStatements ==
    {<<"S","E","L","E","C","T"," ","*"," ","F","R","O","M"," ","u","s","e","r","s",";">>,
     <<"S","E","L","E","C","T"," ","*"," ","F","R","O","M"," ","u","s","e","r","s"," ","W","H","E","R","E"," ","i","d"," ","I","N"," ","(","s","e","l","e","c","t"," ","i","d"," ","f","r","o","m"," ","u","s","e","r","s",")",";">>,
     <<"S","E","L","E","C","T"," ","n","a","m","e"," ","F","R","O","M"," ","u","s","e","r","s"," ","W","H","E","R","E"," ","n","a","m","e"," ","="," ","'","a"," "," ","b","'",";">>}

\* white space around the fenced block
Pads == {<<>>, <<" ">>, <<"\n">>}

Fenced(pad, statement) == pad \o <<Backtick,Backtick,Backtick,"s","q","l","\n">> \o statement \o <<"\n",Backtick,Backtick,Backtick>> \o pad

FencedTexts == {Fenced(pad, statement) : pad \in Pads, statement \in FencedStatements}

RawTexts == Concats(RawFrags, MaxRawFrags) \cup FencedTexts

InitClean ==
    /\ db = InitialDb
    /\ PipelineIdle
    /\ OpenAIIdle
    /\ RefreshIdle
    /\ RepairIdle
    /\ TeardownIdle
    /\ ValidatorIdle
    /\ CatalogIdle
    /\ RankIdle
    /\ cPc = "raw"
    /\ cVariant \in Variants
    /\ cRaw \in RawTexts
    /\ cOnce = <<>>
    /\ cTwice = <<>>

Clean ==
    /\ cPc = "raw"
    /\ cOnce' = CleanOf(cVariant, cRaw)
    /\ cPc' = "cleaned"
    /\ UNCHANGED <<tdVars, fixVars, refVars, aiVars, db, valVars, catVars, rankVars, pipeVars, cVariant, cRaw, cTwice>>

CleanAgain ==
    /\ cPc = "cleaned"
    /\ cTwice' = CleanOf(cVariant, cOnce)
    /\ cPc' = "recleaned"
    /\ UNCHANGED <<tdVars, fixVars, refVars, aiVars, db, valVars, catVars, rankVars, pipeVars, cVariant, cRaw, cOnce>>

NextClean == Clean \/ CleanAgain

SpecClean == InitClean /\ [][NextClean]_vars

\* ------------------------------------------------------------------------
\* Properties of the cleaners
\* ------------------------------------------------------------------------

\* some identifier of s is a name followed by the mock suffix, in any case
HasMockIdentifier(s) ==
    \E i \in 1..Len(s) :
        /\ IsWordChar(s[i])
        /\ i = 1 \/ ~IsWordChar(s[i - 1])
        /\ WordEnd(s, i) - i > Len(mock_suffix)
        /\ EndsWith(lower(SubSeq(s, i, WordEnd(s, i) - 1)), mock_suffix)

\* C7: in privacy mode clean_and_secure_sql replaces every identifier
\* name_sample by name, so its output has no identifier that ends in the
\* mock suffix _sample, in any letter case.
C7_NoMockIdentifierLeft ==
    cVariant = "secure" /\ cPc \in {"cleaned", "recleaned"}
        => ~HasMockIdentifier(cOnce)

\* C8: cleaning is idempotent: clean_and_secure_sql applied to its own
\* output returns that output.
C8_CleanIdempotent ==
    cVariant = "secure" /\ cPc = "recleaned" => cTwice = cOnce

\* ------------------------------------------------------------------------
\* The schema catalog: SecureSchemaInspector (privacy mode) and
\* SchemaInspector (open mode)
\* ------------------------------------------------------------------------
Modes == {"privacy", "open"}

SecureSampleLimit == 5

OpenSampleLimit == 3

metadata_tables == {<<"t","a","b","l","e","_","d","e","s","c","r","i","p","t","i","o","n","s">>, <<"c","o","l","u","m","n","_","d","e","s","c","r","i","p","t","i","o","n","s">>}

\* SELECT name FROM sqlite_master WHERE type='table' ..., and in privacy
\* mode the filter on the mock suffix and the metadata tables
get_all_tables(mode, database) ==
    LET Listed(id) == database[id].exists
        Real(id) ==
            /\ database[id].exists
            /\ ~EndsWith(TableName[id], mock_suffix)
            /\ TableName[id] \notin metadata_tables
    IN  IF mode = "privacy" THEN SelectSeq(CatalogOrder, Real)
        ELSE SelectSeq(CatalogOrder, Listed)

get_mock_table_name(real_table_name) == real_table_name \o mock_suffix

\* SELECT name FROM sqlite_master WHERE type='table' AND name = ?
check_mock_table_exists(database, real_table_name) ==
    \E id \in TableIds :
        database[id].exists /\ TableName[id] = get_mock_table_name(real_table_name)

\* SELECT * FROM name LIMIT limit: the rows read, none for an unknown name
SampleRowsOf(database, name, limit) ==
    IF Resolve(database, name) = {} THEN <<>>
    ELSE LET id == CHOOSE x \in Resolve(database, name) : TRUE
         IN  [k \in 1..Min({database[id].rows, limit}) |-> [table |-> id, row |-> k]]

\* SELECT description FROM table_descriptions WHERE table_name = ?, and ""
\* when the table is missing or has no row for the table
DescriptionOf(database, id) ==
    IF database["table_descriptions"].exists /\ database["table_descriptions"].rows > 0
    THEN TableDescriptions[id]
    ELSE <<>>

\* get_column_descriptions(table_name): the description of each row, and []
\* when column_descriptions is missing
ColumnDescriptionsOf(database, id) ==
    IF database["column_descriptions"].exists /\ database["column_descriptions"].rows > 0
    THEN ColumnDescriptions[id]
    ELSE <<>>

\* get_table_schema reading the samples of the table itself in both modes
get_table_schema_from_real(mode, database, id, unreadable) ==
    [name |-> TableName[id],
     columns |-> TableColumns[id],
     sample_data |-> SampleRowsOf(database, TableName[id], OpenSampleLimit),
     description |-> DescriptionOf(database, id)]

\* get_table_schema of either inspector; unreadable holds the tables whose
\* SELECT raises
get_table_schema(mode, database, id, unreadable) ==
    [name |-> TableName[id],
     columns |-> TableColumns[id],
     sample_data |->
         IF mode = "open" THEN SampleRowsOf(database, TableName[id], OpenSampleLimit)
         ELSE IF /\ check_mock_table_exists(database, TableName[id])
                 /\ get_mock_table_name(TableName[id]) \notin unreadable
         THEN SampleRowsOf(database, get_mock_table_name(TableName[id]), SecureSampleLimit)
         ELSE <<>>,
     description |-> DescriptionOf(database, id)]

NoContext == [ok |-> FALSE, mode |-> "none", tables |-> <<>>, schemas |-> <<>>,
              column_descriptions |-> <<>>, missing_mock_tables |-> <<>>]

\* get_database_context of either inspector; in open mode a SELECT that
\* raises makes the whole call raise
get_database_context(mode, database, unreadable) ==
    LET tables == get_all_tables(mode, database)
        Missing(id) == ~check_mock_table_exists(database, TableName[id])
    IN  IF mode = "open" /\ \E k \in 1..Len(tables) : TableName[tables[k]] \in unreadable
        THEN NoContext
        ELSE [ok |-> TRUE,
              mode |-> mode,
              tables |-> tables,
              schemas |-> [k \in 1..Len(tables) |->
                              get_table_schema(mode, database, tables[k], unreadable)],
              column_descriptions |-> [k \in 1..Len(tables) |->
                                          ColumnDescriptionsOf(database, tables[k])],
              missing_mock_tables |->
                  IF mode = "privacy" THEN SelectSeq(tables, Missing) ELSE <<>>]

\* the rows under "Sample Data:" of create_schema_prompt, table by table
RECURSIVE PromptRows(_, _)
PromptRows(schemas, k) ==
    IF k > Len(schemas) THEN <<>>
    ELSE schemas[k].sample_data \o PromptRows(schemas, k + 1)

\* PromptGenerator.create_text_to_sql_prompt: the parts that vary
create_text_to_sql_prompt(context, user_question) ==
    [tables |-> [k \in 1..Len(context.schemas) |-> context.schemas[k].name],
     sample_rows |-> PromptRows(context.schemas, 1),
     question |-> user_question]

\* ------------------------------------------------------------------------
\* SpecCatalog: an inspector builds the context of a database, and the
\* prompt generator renders it
\* ------------------------------------------------------------------------
MaxTableRows == 6

RowCounts == {0, 2, MaxTableRows}

DataTables == {"users", "users_sample", "orders", "orders_sample"}

\* the databases the catalog is built on: each table absent or present
CatalogDbs ==
    {d \in [TableIds -> {Absent} \cup {Holding(n) : n \in RowCounts}] :
        \A id \in TableIds \ DataTables : d[id].rows = 0}

\* tables whose SELECT may raise
Breakable == {<<"u","s","e","r","s">>, <<"u","s","e","r","s","_","s","a","m","p","l","e">>, <<"o","r","d","e","r","s","_","s","a","m","p","l","e">>}

Questions == {<<"h","o","w"," ","m","a","n","y"," ","u","s","e","r","s">>, <<>>}

NoPrompt == [tables |-> <<>>, sample_rows |-> <<>>, question |-> <<>>]

\* _get_security_level on compliant / total * 100, kept as the fraction
get_security_level(compliant_tables, total_tables) ==
    LET AtLeast(percent) ==
            total_tables > 0 /\ compliant_tables * 100 >= percent * total_tables
    IN  IF AtLeast(100) THEN "FULLY_COMPLIANT"
        ELSE IF AtLeast(80) THEN "MOSTLY_COMPLIANT"
        ELSE IF AtLeast(50) THEN "PARTIALLY_COMPLIANT"
        ELSE "NON_COMPLIANT"

\* SecureTextToSQLService.validate_security_compliance on db_context
validate_security_compliance(context) ==
    LET total_tables == Len(context.tables)
        compliant_tables == total_tables - Len(context.missing_mock_tables)
    IN  [is_fully_compliant |-> Len(context.missing_mock_tables) = 0,
         total_tables |-> total_tables,
         compliant_tables |-> compliant_tables,
         missing_mock_tables |-> context.missing_mock_tables,
         security_level |-> get_security_level(compliant_tables, total_tables)]

NoCompliance ==
    [is_fully_compliant |-> FALSE, total_tables |-> 0, compliant_tables |-> 0,
     missing_mock_tables |-> <<>>, security_level |-> "none"]

InitCatalog ==
    /\ db \in CatalogDbs
    /\ PipelineIdle
    /\ OpenAIIdle
    /\ RefreshIdle
    /\ RepairIdle
    /\ TeardownIdle
    /\ ValidatorIdle
    /\ CleanIdle
    /\ RankIdle
    /\ catPc = "new"
    /\ catMode \in Modes
    /\ catUnreadable = {}
    /\ catContext = NoContext
    /\ catPrompt = NoPrompt
    /\ catCompliance = NoCompliance

\* _initialize_context: get_database_context, then PromptGenerator(db_context)
InitializeContext ==
    /\ catPc = "new"
    /\ \E unreadable \in SUBSET Breakable :
           /\ catUnreadable' = unreadable
           /\ catContext' = get_database_context(catMode, db, unreadable)
    /\ catPc' = IF catContext'.ok THEN "ready" ELSE "failed"
    /\ UNCHANGED <<tdVars, fixVars, refVars, aiVars, db, valVars, cleanVars, rankVars, pipeVars, catMode, catPrompt, catCompliance>>

\* create_text_to_sql_prompt on the context
CreatePrompt ==
    /\ catPc = "ready"
    /\ \E question \in Questions :
           catPrompt' = create_text_to_sql_prompt(catContext, question)
    /\ catPc' = "prompted"
    /\ UNCHANGED <<tdVars, fixVars, refVars, aiVars, db, valVars, cleanVars, rankVars, pipeVars, catMode, catUnreadable, catContext,
                   catCompliance>>

\* validate_security_compliance of the secure service on its context
ValidateSecurityCompliance ==
    /\ catPc = "ready"
    /\ catMode = "privacy"
    /\ catCompliance' = validate_security_compliance(catContext)
    /\ catPc' = "validated"
    /\ UNCHANGED <<tdVars, fixVars, refVars, aiVars, db, valVars, cleanVars, rankVars,
                   pipeVars, catMode, catUnreadable, catContext, catPrompt>>

NextCatalog == InitializeContext \/ CreatePrompt \/ ValidateSecurityCompliance

SpecCatalog == InitCatalog /\ [][NextCatalog]_vars

\* ------------------------------------------------------------------------
\* Properties of the catalog
\* ------------------------------------------------------------------------

\* the row was read from the table called name
ReadFrom(row, name) == TableName[row.table] = name

\* C4: in privacy mode every sample row of a TableSchema, and so every
\* sample row of the prompt, was read from the table <name>_sample; the
\* samples are empty when that table does not exist or its SELECT raised;
\* no sample row was read from the real table <name>.
C4_SamplesOnlyFromMock ==
    catMode = "privacy" /\ catPc \in {"ready", "prompted"} =>
        /\ \A k \in 1..Len(catContext.schemas) :
               LET schema == catContext.schemas[k]
                   mock == schema.name \o mock_suffix
               IN  /\ \A j \in 1..Len(schema.sample_data) :
                          /\ ReadFrom(schema.sample_data[j], mock)
                          /\ ~ReadFrom(schema.sample_data[j], schema.name)
                   /\ (\A id \in TableIds : db[id].exists => TableName[id] # mock)
                          => schema.sample_data = <<>>
                   /\ mock \in catUnreadable => schema.sample_data = <<>>
        /\ catPc = "prompted" =>
               \A j \in 1..Len(catPrompt.sample_rows) :
                   \E k \in 1..Len(catPrompt.tables) :
                       /\ ReadFrom(catPrompt.sample_rows[j], catPrompt.tables[k] \o mock_suffix)
                       /\ \A i \in 1..Len(catPrompt.tables) :
                              ~ReadFrom(catPrompt.sample_rows[j], catPrompt.tables[i])

\* a privacy-mode prompt with mock rows in it, made while the real tables
\* hold rows and one of them has no mock table
C4_Witness ==
    /\ catMode = "privacy"
    /\ catPc = "prompted"
    /\ catPrompt.sample_rows # <<>>
    /\ db["users"].rows > 0
    /\ db["orders"].rows > 0
    /\ ~db["orders_sample"].exists
    /\ Len(catPrompt.tables) = 2

\* ------------------------------------------------------------------------
\* The relevance ranker (SmartSchemaService)
\* ------------------------------------------------------------------------

\* any(part in question for part in parts)
AnyIn(parts, question) == \E k \in 1..Len(parts) : Contains(question, parts[k])

\* the score of one column name with the part match only tried when the
\* whole name does not occur
ColumnScoreExclusive(column, question_lower) ==
    LET col_name == lower(column)
    IN  IF Contains(question_lower, col_name) THEN 30
        ELSE IF AnyIn(SplitOn(col_name, "_"), question_lower) THEN 15 ELSE 0

\* the score of one column name
ColumnScore(column, question_lower) ==
    LET col_name == lower(column)
    IN  (IF Contains(question_lower, col_name) THEN 30 ELSE 0)
        + (IF AnyIn(SplitOn(col_name, "_"), question_lower) THEN 15 ELSE 0)

RECURSIVE SumOver(_, _)
SumOver(scores, k) ==
    IF k > Len(scores) THEN 0 ELSE scores[k] + SumOver(scores, k + 1)

\* the words of the sequence, as a set
WordSet(words) == {words[k] : k \in 1..Len(words)}

\* the score of the k-th table of the context for the question
TableScore(context, k, question_lower) ==
    LET schema == context.schemas[k]
        table_lower == lower(schema.name)
        question_words == SplitWords(question_lower)
        common_words == WordSet(SplitWords(lower(schema.description)))
                            \cap WordSet(question_words)
        column_descs == context.column_descriptions[k]
    IN  (IF Contains(question_lower, table_lower) THEN 100 ELSE 0)
        + (IF AnyIn(SplitOn(table_lower, "_"), question_lower) THEN 50 ELSE 0)
        + SumOver([c \in 1..Len(schema.columns) |->
                      ColumnScore(schema.columns[c], question_lower)], 1)
        + Cardinality(common_words) * 10
        + SumOver([c \in 1..Len(column_descs) |->
                      IF AnyIn(question_words, lower(column_descs[c])) THEN 5 ELSE 0], 1)

\* table_scores, in the order of all_tables
TableScores(context, user_question) ==
    TheOnly({[k \in 1..Len(context.tables) |-> TableScore(context, k, q)] :
                q \in {lower(user_question)}})

\* a sort by score that puts the later of two equal tables first
SortedLatestFirst(scores) ==
    LET Place(i) == Cardinality({j \in 1..Len(scores) : scores[j] > scores[i]})
                        + Cardinality({j \in (i + 1)..Len(scores) : scores[j] = scores[i]}) + 1
    IN  [p \in 1..Len(scores) |-> CHOOSE i \in 1..Len(scores) : Place(i) = p]

\* sorted(..., key=score, reverse=True): the index that lands on place p;
\* the sort is stable, equal scores keep the order of all_tables
SortedByScore(scores) ==
    LET Place(i) == Cardinality({j \in 1..Len(scores) : scores[j] > scores[i]})
                        + Cardinality({j \in 1..(i - 1) : scores[j] = scores[i]}) + 1
    IN  [p \in 1..Len(scores) |-> CHOOSE i \in 1..Len(scores) : Place(i) = p]

\* xs[:n] for n >= 0
Head_(xs, n) == SubSeq(xs, 1, Min({n, Len(xs)}))

\* get_relevant_tables without the fallback on all_tables
get_relevant_tables_no_fallback(context, user_question, max_tables) ==
    LET scores == TableScores(context, user_question)
        Scored(i) == scores[i] > 0
        top == SelectSeq(Head_(SortedByScore(scores), max_tables), Scored)
    IN  [k \in 1..Len(top) |-> context.tables[top[k]]]

\* get_relevant_tables cutting the list after the filter on the score
get_relevant_tables_late_cut(context, user_question, max_tables) ==
    LET scores == TableScores(context, user_question)
        Scored(i) == scores[i] > 0
        top == SelectSeq(SortedByScore(scores), Scored)
    IN  IF top = <<>> THEN Head_(context.tables, max_tables)
        ELSE [k \in 1..Min({Len(top), max_tables + 1}) |-> context.tables[top[k]]]

\* SmartSchemaService.get_relevant_tables on the cached context
get_relevant_tables(context, user_question, max_tables) ==
    LET scores == TableScores(context, user_question)
        Scored(i) == scores[i] > 0
        top == SelectSeq(Head_(SortedByScore(scores), max_tables), Scored)
        relevant_tables == [k \in 1..Len(top) |-> context.tables[top[k]]]
    IN  IF relevant_tables = <<>> THEN Head_(context.tables, max_tables)
        ELSE relevant_tables

\* ------------------------------------------------------------------------
\* SpecRank: a SmartSchemaService caches the context of a database and is
\* asked twice for the tables relevant to a question
\* ------------------------------------------------------------------------
MaxTablesArg == 4

RankQuestions ==
    {<<>>, <<"w","e","a","t","h","e","r">>, <<"s","h","o","w"," ","i","d">>, <<"H","o","w"," ","m","a","n","y"," ","U","S","E","R","S">>, <<"t","o","t","a","l"," ","o","f"," ","o","r","d","e","r","s"," ","p","e","r"," ","u","s","e","r">>,
     <<"t","h","e"," ","c","u","s","t","o","m","e","r"," ","n","a","m","e","s">>}

\* the databases behind the ranker: every table absent or present, the
\* metadata tables with or without rows
RankDbs ==
    {d \in [TableIds -> {Absent, Holding(0), Holding(SampleRows)}] :
        \A id \in DataTables : d[id] # Holding(0)}

InitRank ==
    /\ db \in RankDbs
    /\ PipelineIdle
    /\ OpenAIIdle
    /\ RefreshIdle
    /\ RepairIdle
    /\ TeardownIdle
    /\ ValidatorIdle
    /\ CleanIdle
    /\ CatalogIdle
    /\ rPc = "new"
    /\ rContext = get_database_context("open", db, {})
    /\ rQuestion \in RankQuestions
    /\ rMax \in 0..MaxTablesArg
    /\ rFirst = <<>>
    /\ rSecond = <<>>

\* the first call of get_relevant_tables
RankFirst ==
    /\ rPc = "new"
    /\ rFirst' = get_relevant_tables(rContext, rQuestion, rMax)
    /\ rPc' = "first"
    /\ UNCHANGED <<tdVars, fixVars, refVars, aiVars, db, valVars, cleanVars, catVars, pipeVars, rContext, rQuestion, rMax, rSecond>>

\* the second call, with the same arguments on the same cached context
RankSecond ==
    /\ rPc = "first"
    /\ rSecond' = get_relevant_tables(rContext, rQuestion, rMax)
    /\ rPc' = "second"
    /\ UNCHANGED <<tdVars, fixVars, refVars, aiVars, db, valVars, cleanVars, catVars, pipeVars, rContext, rQuestion, rMax, rFirst>>

NextRank == RankFirst \/ RankSecond

SpecRank == InitRank /\ [][NextRank]_vars

\* ------------------------------------------------------------------------
\* Properties of the ranker
\* ------------------------------------------------------------------------

C10_RankFallback ==
    rPc \in {"first", "second"} =>
        LET scores == TableScores(rContext, rQuestion)
        IN  /\ (\A k \in 1..Len(scores) : scores[k] = 0) =>
                   /\ Len(rFirst) = Min({rMax, Len(rContext.tables)})
                   /\ \A i \in 1..Len(rFirst) : rFirst[i] = rContext.tables[i]
            /\ (rContext.tables # <<>> /\ rMax >= 1) => rFirst # <<>>

\* a catalog of more than max_tables tables none of which scores for a
\* question that is not empty
C10_Witness ==
    /\ rPc = "first"
    /\ rQuestion # <<>>
    /\ rMax >= 1
    /\ Len(rContext.tables) > rMax
    /\ Len(rFirst) = rMax
    /\ \A k \in 1..Len(rContext.tables) : TableScores(rContext, rQuestion)[k] = 0

\* ------------------------------------------------------------------------
\* attempt_query_fix of the three services
\* ------------------------------------------------------------------------

\* re.sub(rf'\b{name}\b', name, s, flags=re.IGNORECASE) from index i on, for
\* a name made of word characters: a match is a whole word
RECURSIVE ReplaceWord(_, _, _)
ReplaceWord(s, i, name) ==
    LET starts == {j \in i..Len(s) : IsWordChar(s[j])}
    IN  IF starts = {} THEN SubSeq(s, i, Len(s))
        ELSE TheOnly({SubSeq(s, i, Min(starts) - 1)
                      \o (IF lower(word) = lower(name) THEN name ELSE word)
                      \o ReplaceWord(s, WordEnd(s, Min(starts)), name)
                      : word \in {SubSeq(s, Min(starts), WordEnd(s, Min(starts)) - 1)}})

\* the loop over db_context['tables'] from table k on; guarded: only for
\* the names found in the query the fix started from
RECURSIVE FixTableNames(_, _, _, _, _)
FixTableNames(fixed_query, sql_query, tables, k, guarded) ==
    IF k > Len(tables) THEN fixed_query
    ELSE LET table_name == TableName[tables[k]]
             replaced == IF guarded => Contains(lower(sql_query), lower(table_name))
                         THEN ReplaceWord(fixed_query, 1, table_name)
                         ELSE fixed_query
         IN  FixTableNames(replaced, sql_query, tables, k + 1, guarded)

\* the loop over db_context['schemas'] from table k on: the first column of
\* each table that is error_column in another case replaces it
RECURSIVE FixColumnNames(_, _, _, _)
FixColumnNames(fixed_query, error_column, schemas, k) ==
    IF k > Len(schemas) THEN fixed_query
    ELSE LET columns == schemas[k].columns
             same == {c \in 1..Len(columns) : lower(columns[c]) = lower(error_column)}
             replaced == IF same = {} THEN fixed_query
                         ELSE ReplaceWord(fixed_query, 1, columns[Min(same)])
         IN  FixColumnNames(replaced, error_column, schemas, k + 1)

\* SecureTextToSQLService.attempt_query_fix
attempt_query_fix_secure(context, sql_query, error) ==
    LET tables_fixed == IF error.err = "no such table"
                        THEN FixTableNames(sql_query, sql_query, context.tables, 1, FALSE)
                        ELSE sql_query
        columns_fixed == IF error.err = "no such column" /\ error.name # <<>>
                         THEN FixColumnNames(tables_fixed, error.name, context.schemas, 1)
                         ELSE tables_fixed
    IN  StripMockSuffix(columns_fixed, 1)

\* TextToSQLService.attempt_query_fix
attempt_query_fix_basic(context, sql_query, error) ==
    LET fixed_query == IF error.err = "no such table"
                       THEN FixTableNames(sql_query, sql_query, context.tables, 1, TRUE)
                       ELSE sql_query
    IN  IF EndsWith(rstrip(fixed_query), <<";">>) THEN fixed_query
        ELSE rstrip(fixed_query) \o <<";">>

\* EnhancedTextToSQLService.attempt_query_fix
attempt_query_fix_enhanced(context, sql_query, error) ==
    IF error.err = "no such table"
    THEN FixTableNames(sql_query, sql_query, context.tables, 1, TRUE)
    ELSE sql_query

attempt_query_fix(variant, context, sql_query, error) ==
    IF variant = "secure" THEN attempt_query_fix_secure(context, sql_query, error)
    ELSE IF variant = "basic" THEN attempt_query_fix_basic(context, sql_query, error)
    ELSE attempt_query_fix_enhanced(context, sql_query, error)

\* ------------------------------------------------------------------------
\* process_question of the three services
\* ------------------------------------------------------------------------

\* what process_question returns, and the database it leaves
Failure(error, query, database) ==
    [success |-> FALSE, error |-> error, query |-> query, row_count |-> 0,
     db |-> database]

\* the return after execute_safe_query returned r for sql_query
Answered(sql_query, r) ==
    [success |-> r.success, error |-> r.error, query |-> sql_query,
     row_count |-> r.row_count, db |-> r.db]

\* "Invalid SQL generated: ..." and, in the enhanced service, "Invalid SQL: ..."
InvalidSql(variant) ==
    IF variant = "enhanced" THEN "Invalid SQL" ELSE "Invalid SQL generated"

\* one entry of the record of a call: the stage called, the text handed to
\* it and how it came back ("true", "false", "text", "none" or "raised")
Call(op, arg, out) == [op |-> op, arg |-> arg, out |-> out]

Outcome(ok) == IF ok THEN "true" ELSE "false"

\* the keys of the returned dict with the question left out of the failures
BaseKeysWithoutQuestion(outcome) ==
    IF outcome = "success" THEN {"success", "query", "result", "question"}
    ELSE IF outcome \in {"invalid", "execution"} THEN {"success", "error", "query"}
    ELSE {"success", "error"}

\* the keys every returned dict has, by the return statement reached
BaseKeys(outcome) ==
    IF outcome = "success" THEN {"success", "query", "result", "question"}
    ELSE IF outcome \in {"invalid", "execution"}
    THEN {"success", "error", "query", "question"}
    ELSE {"success", "error", "question"}

\* the keys one service adds at that return statement
ExtraKeys(variant, outcome) ==
    IF outcome = "success"
    THEN (IF variant = "secure" THEN {"security_info"}
          ELSE IF variant = "basic" THEN {"prompt_used"} ELSE {"metadata"})
    ELSE IF outcome = "invalid" THEN {"suggestion"}
    ELSE IF outcome = "execution" /\ variant # "enhanced" THEN {"suggestion"}
    ELSE IF outcome \in {"connection", "generation", "exception"} /\ variant = "secure"
    THEN {"suggestion"}
    ELSE {}

\* the dict returned at the return statement of that outcome: its keys, the
\* question it carries and the stages the call went through
Reply(base, variant, outcome, user_question, calls) ==
    base @@ [keys |-> BaseKeys(outcome) \cup ExtraKeys(variant, outcome),
             question |-> user_question, calls |-> calls, raised |-> FALSE]

\* a call that ends by raising instead of returning
Uncaught(variant, database, user_question, calls) ==
    Failure("raised", Null, database)
        @@ [keys |-> {}, question |-> <<>>, calls |-> calls, raised |-> TRUE]

\* except Exception as e: the return of the handler around the whole body
Caught(variant, database, user_question, calls) ==
    Reply(Failure("Processing error", Null, database), variant, "exception",
          user_question, calls)

\* what execute_safe_query returns when the engine raises something that is
\* not an sqlite3.Error
UnexpectedError(database) ==
    [success |-> FALSE, error |-> "Unexpected error", row_count |-> 0, query |-> Null,
     submitted |-> <<>>, db |-> database]

\* execute_safe_query on the validated query, and the two returns after it
Execute(variant, database, user_question, sql_query, calls, fault) ==
    TheOnly({Reply(Answered(sql_query, r), variant,
                   IF r.success THEN "success" ELSE "execution", user_question,
                   Append(calls, Call("execute_safe_query", sql_query, Outcome(r.success))))
             : r \in {IF fault = "execute_safe_query" THEN UnexpectedError(database)
                      ELSE execute_safe_query(database, sql_query, DefaultLimit)}})

\* the second validate_syntax reporting the query as it was before the fix
ValidateFixedReportingCleaned(variant, database, user_question, sql_query, calls, fault) ==
    IF validate_syntax(database, sql_query).is_valid
    THEN Execute(variant, database, user_question, sql_query,
                 Append(calls, Call("validate_syntax", sql_query, "true")), fault)
    ELSE Reply(Failure(InvalidSql(variant), calls[Len(calls)].arg, database), variant,
               "invalid", user_question,
               Append(calls, Call("validate_syntax", sql_query, "false")))

\* the second validate_syntax with the query executed whatever it says
ValidateFixedExecuting(variant, database, user_question, sql_query, calls, fault) ==
    Execute(variant, database, user_question, sql_query,
            Append(calls, Call("validate_syntax", sql_query,
                               Outcome(validate_syntax(database, sql_query).is_valid))),
            fault)

\* the second validate_syntax, on the fixed query, and the execution
ValidateFixed(variant, database, user_question, sql_query, calls, fault) ==
    IF fault = "validate_again"
    THEN Caught(variant, database, user_question,
                Append(calls, Call("validate_syntax", sql_query, "raised")))
    ELSE TheOnly({IF ~v.is_valid
                  THEN Reply(Failure(InvalidSql(variant), sql_query, database), variant,
                             "invalid", user_question,
                             Append(calls, Call("validate_syntax", sql_query, "false")))
                  ELSE Execute(variant, database, user_question, sql_query,
                               Append(calls, Call("validate_syntax", sql_query, "true")),
                               fault)
                  : v \in {validate_syntax(database, sql_query)}})

\* attempt_query_fix on the query the first validate_syntax refused
Repair(variant, database, context, user_question, sql_query, error, calls, fault) ==
    IF fault = "attempt_query_fix"
    THEN Caught(variant, database, user_question,
                Append(calls, Call("attempt_query_fix", sql_query, "raised")))
    ELSE TheOnly({ValidateFixed(variant, database, user_question, fixed,
                                Append(calls, Call("attempt_query_fix", sql_query, "text")),
                                fault)
                  : fixed \in {attempt_query_fix(variant, context, sql_query, error)}})

\* validate_syntax, attempt_query_fix when it fails, execute_safe_query
ValidateAndExecute(variant, database, context, user_question, sql_query, calls, fault) ==
    IF fault = "validate_syntax"
    THEN Caught(variant, database, user_question,
                Append(calls, Call("validate_syntax", sql_query, "raised")))
    ELSE TheOnly({IF v.is_valid
                  THEN Execute(variant, database, user_question, sql_query,
                               Append(calls, Call("validate_syntax", sql_query, "true")),
                               fault)
                  ELSE Repair(variant, database, context, user_question, sql_query, v.error,
                              Append(calls, Call("validate_syntax", sql_query, "false")),
                              fault)
                  : v \in {validate_syntax(database, sql_query)}})

\* what generate_sql returns instead of a text when the call failed
None == <<"None">>

\* generate_sql_response: the fallback query when generate_sql returned None
fallback_query ==
    <<"S","E","L","E","C","T"," ","'","O","p","e","n","A","I"," ","A","P","I"," ","u","n","a","v","a","i","l","a","b","l","e","."," ","P","l","e","a","s","e"," ","c","h","e","c","k"," ","y","o","u","r"," ","A","P","I"," ","k","e","y"," ","a","n","d"," ","t","r","y"," ","a","g","a","i","n",".","'"," ","a","s"," ","e","r","r","o","r","_","m","e","s","s","a","g","e",";">>

generate_sql_response(completion) ==
    IF completion = None THEN fallback_query ELSE completion

ConnectionError(variant) ==
    IF variant = "enhanced"
    THEN "OpenAI API is not accessible. Please check your API key."
    ELSE "OpenAI API is not accessible. Please check your API key and internet connection."

GenerationError(variant) ==
    IF variant = "enhanced"
    THEN "Failed to generate SQL from OpenAI"
    ELSE "Failed to generate SQL from OpenAI. API may be temporarily unavailable."

\* the cleaner called and its output dropped
CleanAndValidateRaw(variant, database, context, user_question, generated_sql, calls, fault) ==
    ValidateAndExecute(variant, database, context, user_question, generated_sql,
                       Append(calls, Call("clean", generated_sql, "text")), fault)

\* the cleaner of the service on what generate_sql returned
CleanAndValidate(variant, database, context, user_question, generated_sql, calls, fault) ==
    IF fault = "clean"
    THEN Caught(variant, database, user_question,
                Append(calls, Call("clean", generated_sql, "raised")))
    ELSE TheOnly({ValidateAndExecute(variant, database, context, user_question, sql_query,
                                     Append(calls, Call("clean", generated_sql, "text")),
                                     fault)
                  : sql_query \in {CleanOf(variant, generated_sql)}})

\* the prompt, generate_sql and the return when it gave None
Generate(variant, database, context, user_question, completion, calls, fault) ==
    IF fault = "create_prompt"
    THEN Caught(variant, database, user_question,
                Append(calls, Call("create_prompt", user_question, "raised")))
    ELSE IF fault = "generate_sql"
    THEN Caught(variant, database, user_question,
                calls \o <<Call("create_prompt", user_question, "text"),
                           Call("generate_sql", <<>>, "raised")>>)
    ELSE LET asked == calls \o <<Call("create_prompt", user_question, "text"),
                                 Call("generate_sql", <<>>,
                                      IF completion = None THEN "none" ELSE "text")>>
         IN  IF variant # "basic" /\ completion = None
             THEN Reply(Failure(GenerationError(variant), Null, database), variant,
                        "generation", user_question, asked)
             ELSE CleanAndValidate(variant, database, context, user_question,
                                   generate_sql_response(completion), asked, fault)

\* the stages at which a call can be made to raise
FaultPoints ==
    {"test_connection", "create_prompt", "generate_sql", "clean", "validate_syntax",
     "attempt_query_fix", "validate_again", "execute_safe_query"}

\* process_question going on to the prompt whatever test_connection says
process_question_ungated(variant, database, context, user_question, connected, completion, fault) ==
    Generate(variant, database, context, user_question, completion,
             <<Call("test_connection", <<>>, Outcome(connected))>>, fault)

\* process_question of the service variant: connected is what
\* test_connection returns, completion what generate_sql returns, fault the
\* stage that raises when the call reaches it ("none": no stage does)
process_question(variant, database, context, user_question, connected, completion, fault) ==
    IF variant = "secure" /\ strip(user_question) = <<>>
    THEN Reply(Failure("Empty question provided", Null, database), variant, "empty",
               user_question, <<>>)
    ELSE IF fault = "test_connection" /\ variant # "secure"
    THEN Caught(variant, database, user_question,
                <<Call("test_connection", <<>>, "raised")>>)
    ELSE IF fault = "test_connection" \/ ~connected
    THEN Reply(Failure(ConnectionError(variant), Null, database), variant, "connection",
               user_question,
               <<Call("test_connection", <<>>,
                      IF fault = "test_connection" THEN "raised" ELSE "false")>>)
    ELSE Generate(variant, database, context, user_question, completion,
                  <<Call("test_connection", <<>>, "true")>>, fault)

\* generate_sql is called once the question and the connection passed
Asks(variant, user_question, connected) ==
    connected /\ ~(variant = "secure" /\ strip(user_question) = <<>>)


\* ------------------------------------------------------------------------
\* Spec: the three services on one database answer questions, one call at a
\* time; the completion endpoint returns any text of a bounded set, or None
\* ------------------------------------------------------------------------
MaxGenFrags == 2

GenFrags == {<<"S","E","L","E","C","T"," ","*"," ","F","R","O","M"," ","u","s","e","r","s">>, <<"_","s","a","m","p","l","e">>, <<";">>, <<Backtick,Backtick,Backtick,"s","q","l","\n">>}

\* completions that are not made of the fragments
WholeCompletions ==
    {<<"S","E","L","E","C","T"," ","n","a","m"," ","F","R","O","M"," ","o","r","d","e","r","s">>, <<"W","I","T","H"," ","x"," ","A","S"," ","(","V","A","L","U","E","S","(","'","-","-","'",")",")"," ","D","E","L","E","T","E"," ","F","R","O","M"," ","u","s","e","r","s">>,
     <<"D","R","O","P"," ","T","A","B","L","E"," ","u","s","e","r","s">>, <<"S","E","L","E","C","T"," ","i","d"," ","F","R","O","M"," ","O","R","D","E","R","S","_","s","a","m","p","l","e","_","s","a","m","p","l","e">>,
     <<"S","E","L","E","C","T"," ","*"," ","F","R","O","M"," ","u","s","e","r","s","_","s","a","m","p","l","e","_","s","a","m","p","l","e">>, <<"H","e","r","e"," ","i","s"," ","t","h","e"," ","q","u","e","r","y",":"," ","S","E","L","E","C","T"," ","*"," ","F","R","O","M"," ","u","s","e","r","s">>}

Completions == Concats(GenFrags, MaxGenFrags) \cup WholeCompletions \cup {None}

\* the context each service cached when it was constructed
ContextOf(variant) ==
    IF variant = "secure" THEN get_database_context("privacy", InitialDb, {})
    ELSE get_database_context("open", InitialDb, {})

NoResult ==
    [success |-> FALSE, error |-> Null, query |-> Null, row_count |-> 0, keys |-> {},
     question |-> <<>>, calls |-> <<>>, raised |-> FALSE]

Init ==
    /\ db = InitialDb
    /\ ValidatorIdle
    /\ OpenAIIdle
    /\ RefreshIdle
    /\ RepairIdle
    /\ TeardownIdle
    /\ CleanIdle
    /\ CatalogIdle
    /\ RankIdle
    /\ pPc = "ready"
    /\ pVariant = "secure"
    /\ pQuestion = <<>>
    /\ pAsked = FALSE
    /\ pCompletion = None
    /\ pResult = NoResult

\* one call of process_question on the service variant
ProcessQuestion(variant) ==
    /\ pPc = "ready"
    /\ \E user_question \in Questions, connected \in BOOLEAN, completion \in Completions,
          fault \in FaultPoints \cup {"none"} :
           /\ ~Asks(variant, user_question, connected) =>
                  completion = None /\ fault \in {"none", "test_connection"}
           /\ fault = "test_connection" => connected /\ completion = None
           /\ fault \in {"create_prompt", "generate_sql"} => completion = None
           /\ \E r \in {process_question(variant, db, ContextOf(variant), user_question,
                                         connected, completion, fault)} :
                  /\ pResult' = [f \in DOMAIN r \ {"db"} |-> r[f]]
                  /\ db' = r.db
           /\ pQuestion' = user_question
           /\ pAsked' = (Asks(variant, user_question, connected)
                          /\ fault \notin {"test_connection", "create_prompt", "generate_sql"})
           /\ pCompletion' = completion
    /\ pVariant' = variant
    /\ pPc' = "answered"
    /\ UNCHANGED <<tdVars, fixVars, refVars, aiVars, valVars, cleanVars, catVars, rankVars>>

\* the caller takes the result; the services keep nothing of the call
TakeResult ==
    /\ pPc = "answered"
    /\ pPc' = "ready"
    /\ pVariant' = "secure"
    /\ pQuestion' = <<>>
    /\ pAsked' = FALSE
    /\ pCompletion' = None
    /\ pResult' = NoResult
    /\ UNCHANGED <<tdVars, fixVars, refVars, aiVars, db, valVars, cleanVars, catVars, rankVars>>

Next ==
    \/ \E variant \in Variants : ProcessQuestion(variant)
    \/ TakeResult

Spec == Init /\ [][Next]_vars

\* ------------------------------------------------------------------------
\* Properties of the pipeline
\* ------------------------------------------------------------------------

\* C2: after any sequence of process_question calls, whatever the completion
\* endpoint returned, the tables of the database hold the rows and have the
\* schema they had before the calls.
C2_DatabaseUnchanged == db = InitialDb

\* C5: in every service variant, a call of process_question in which
\* generate_sql returned None returns success = false with the service's
\* generation-failure message.
C5_NullCompletionFails ==
    (pPc = "answered" /\ pAsked /\ pCompletion = None) =>
        /\ ~pResult.success
        /\ pResult.error = GenerationError(pVariant)

\* the places of the calls of op in the record of the last call
CallsOf(op) == {i \in 1..Len(pResult.calls) : pResult.calls[i].op = op}

\* the last call ended at the return of a validation failure
ValidationFailure == pPc = "answered" /\ pResult.error = InvalidSql(pVariant)

\* C11: every value process_question returns is success = true with the
\* query and the result, or success = false with an error and the question
\* as the caller passed it; the query is there only when a candidate SQL
\* was produced.
C11_ResultShapes ==
    pPc = "answered" =>
        /\ pResult.success =>
               {"query", "result"} \subseteq pResult.keys /\ "error" \notin pResult.keys
        /\ ~pResult.success =>
               /\ {"error", "question"} \subseteq pResult.keys
               /\ "result" \notin pResult.keys
               /\ pResult.question = pQuestion
        /\ "query" \in pResult.keys =>
               \E i \in CallsOf("clean") : pResult.calls[i].out = "text"

\* a failure with a candidate and one without, both with the question
C11_Witness ==
    /\ pPc = "answered"
    /\ ~pResult.success
    /\ "query" \in pResult.keys
    /\ pResult.question = pQuestion
    /\ pQuestion # <<>>
    /\ pVariant = "enhanced"

\* C12: process_question does not raise; a stage that raises ends the call
\* with success = false, the question, and 'Processing error' or the
\* message of the stage.
C12_FaultsBecomeFailures ==
    pPc = "answered" =>
        /\ ~pResult.raised
        /\ ((\E i \in 1..Len(pResult.calls) : pResult.calls[i].out = "raised")
               \/ pResult.error = "Unexpected error") =>
               /\ ~pResult.success
               /\ "question" \in pResult.keys
               /\ pResult.question = pQuestion
               /\ pResult.error \in {"Processing error", ConnectionError(pVariant),
                                     "Unexpected error"}

\* the repair step raised, after a validation that failed
C12_Witness ==
    /\ pPc = "answered"
    /\ \E i \in CallsOf("attempt_query_fix") : pResult.calls[i].out = "raised"
    /\ pResult.error = "Processing error"
    /\ ~pResult.raised

\* C13: the execution-failure outcome is reported only for a statement
\* that passed the safety check and the parse check; a candidate that is
\* not read-only is reported as a validation failure.
C13_UnsafeIsValidationFailure ==
    pPc = "answered" =>
        \A i \in CallsOf("execute_safe_query") :
            pResult.error # "Unexpected error" => is_safe_query(pResult.calls[i].arg)

\* C14: the query of a validation failure is the repaired candidate, the
\* string the second validate_syntax call refused.
C14_FailureCarriesRepaired ==
    ValidationFailure =>
        /\ "query" \in pResult.keys
        /\ Cardinality(CallsOf("validate_syntax")) = 2
        /\ \E i \in CallsOf("validate_syntax"), j \in CallsOf("attempt_query_fix") :
               /\ i = Len(pResult.calls)
               /\ j = i - 1
               /\ pResult.calls[i].out = "false"
               /\ pResult.calls[i].arg = pResult.query
               /\ pResult.query =
                      attempt_query_fix(pVariant, ContextOf(pVariant), pResult.calls[j].arg,
                                        validate_syntax(db, pResult.calls[j].arg).error)

\* a validation failure whose repaired candidate is not the cleaned one
C14_Witness ==
    /\ ValidationFailure
    /\ \E j \in CallsOf("attempt_query_fix") : pResult.calls[j].arg # pResult.query

\* C17: generate_sql is called only after test_connection returned true in
\* the same call; when test_connection returns false or raises the call
\* fails with the question, and nothing is generated, validated or executed.
C17_ConnectivityGate ==
    pPc = "answered" =>
        /\ \A i \in CallsOf("generate_sql") :
               /\ i > 1
               /\ pResult.calls[1] = Call("test_connection", <<>>, "true")
        /\ \A i \in CallsOf("test_connection") :
               pResult.calls[i].out # "true" =>
                   /\ ~pResult.success
                   /\ pResult.question = pQuestion
                   /\ "question" \in pResult.keys
                   /\ Len(pResult.calls) = 1

\* test_connection raised in a service that does not catch it itself
C17_Witness ==
    /\ pPc = "answered"
    /\ pVariant = "basic"
    /\ pResult.calls = <<Call("test_connection", <<>>, "raised")>>
    /\ pResult.error = "Processing error"

\* C19: the stages of a call come in the order clean, validate, (repair,
\* validate again only after a failed validation), execute; the query
\* executed is the one the latest validate_syntax accepted, and the cleaned
\* candidate itself when the first validation accepted it.
C19_StageOrder ==
    pPc = "answered" =>
        /\ \A i \in CallsOf("execute_safe_query") :
               /\ i > 1
               /\ pResult.calls[i - 1] =
                      Call("validate_syntax", pResult.calls[i].arg, "true")
        /\ \A i \in CallsOf("validate_syntax") :
               /\ i > 1
               /\ pResult.calls[i - 1].op \in {"clean", "attempt_query_fix"}
               /\ pResult.calls[i - 1].out = "text"
        /\ \A i \in CallsOf("attempt_query_fix") :
               /\ i > 1
               /\ pResult.calls[i - 1] =
                      Call("validate_syntax", pResult.calls[i].arg, "false")
        /\ \A i \in CallsOf("clean") :
               /\ pResult.calls[i].arg = generate_sql_response(pCompletion)
               /\ i + 2 \in CallsOf("execute_safe_query") =>
                      pResult.calls[i + 2].arg = CleanOf(pVariant, pResult.calls[i].arg)
               /\ i + 1 \in CallsOf("validate_syntax") =>
                      pResult.calls[i + 1].arg = CleanOf(pVariant, pResult.calls[i].arg)

\* a fenced completion executed as cleaned, after one validation
C19_Witness ==
    /\ pPc = "answered"
    /\ pResult.success
    /\ CallsOf("attempt_query_fix") = {}
    /\ \E i \in CallsOf("clean") :
           /\ i + 2 \in CallsOf("execute_safe_query")
           /\ pResult.calls[i + 2].arg # pResult.calls[i].arg

\* C20: one call of process_question calls generate_sql at most once,
\* attempt_query_fix at most once, validate_syntax at most twice and
\* execute_safe_query at most once; after a second failed validation the
\* call fails and nothing is executed.
C20_CallCounts ==
    pPc = "answered" =>
        /\ Cardinality(CallsOf("generate_sql")) <= 1
        /\ Cardinality(CallsOf("attempt_query_fix")) <= 1
        /\ Cardinality(CallsOf("validate_syntax")) <= 2
        /\ Cardinality(CallsOf("execute_safe_query")) <= 1
        /\ \A i \in CallsOf("validate_syntax") :
               (pResult.calls[i].out = "false" /\ CallsOf("attempt_query_fix") \cap 1..i # {})
                   => /\ ~pResult.success
                      /\ CallsOf("execute_safe_query") = {}
                      /\ i = Len(pResult.calls)

\* a call that validated twice and then executed the repaired query
C20_Witness ==
    /\ pPc = "answered"
    /\ Cardinality(CallsOf("validate_syntax")) = 2
    /\ Cardinality(CallsOf("attempt_query_fix")) = 1
    /\ Cardinality(CallsOf("execute_safe_query")) = 1
    /\ pResult.success

\* C18: the table list of a DatabaseContext holds no sqlite_ table, neither
\* metadata table, and in privacy mode no table whose name ends in the mock
\* suffix; the schemas of the context are those of the listed tables.
C18_NoReservedTables ==
    (catPc # "new" /\ catContext.ok) =>
        /\ Len(catContext.schemas) = Len(catContext.tables)
        /\ \A k \in 1..Len(catContext.tables) :
               /\ ~StartsWith(TableName[catContext.tables[k]], <<"s","q","l","i","t","e","_">>)
               /\ TableName[catContext.tables[k]] \notin metadata_tables
               /\ catMode = "privacy" =>
                      ~EndsWith(TableName[catContext.tables[k]], mock_suffix)

-----------------------------------------------------------------------------
\* OpenAIService.generate_sql

\* the exception classes a request can end with, each with its base class
ExceptionBase ==
    [RateLimitError |-> "APIStatusError",
     AuthenticationError |-> "APIStatusError",
     APIStatusError |-> "APIError",
     APITimeoutError |-> "APIConnectionError",
     APIConnectionError |-> "APIError",
     APIError |-> "OpenAIError",
     OpenAIError |-> "Exception",
     OSError |-> "Exception",
     AttributeError |-> "Exception",
     Exception |-> "BaseException",
     KeyboardInterrupt |-> "BaseException",
     BaseException |-> "object"]

\* isinstance(an exception of class cls, base)
RECURSIVE IsInstance(_, _)
IsInstance(cls, base) ==
    \/ cls = base
    \/ cls \in DOMAIN ExceptionBase /\ IsInstance(ExceptionBase[cls], base)

\* the except clauses of generate_sql, in order, without the last one
HandlersWithoutCatchAll == <<"RateLimitError", "AuthenticationError", "APIError">>

\* the except clauses of generate_sql, in order
Handlers == <<"RateLimitError", "AuthenticationError", "APIError", "Exception">>

\* what leaves the try statement when cls is raised inside it: every
\* except clause returns None
Except(cls) ==
    IF \E k \in 1..Len(Handlers) : IsInstance(cls, Handlers[k])
    THEN [raised |-> FALSE, class |-> "none", value |-> None]
    ELSE [raised |-> TRUE, class |-> cls, value |-> None]

Raised(cls) == [kind |-> "raise", class |-> cls, choices |-> <<>>]

Response(choices) == [kind |-> "response", class |-> "none", choices |-> choices]

\* generate_sql on what the request did; a choice's content is a text or None
generate_sql(response) ==
    IF response.kind = "raise" THEN Except(response.class)
    ELSE IF Len(response.choices) > 0
    THEN IF response.choices[1] = None
         THEN Except("AttributeError")
         ELSE [raised |-> FALSE, class |-> "none", value |-> strip(response.choices[1])]
    ELSE [raised |-> FALSE, class |-> "none", value |-> None]

MaxContentFrags == 2

MaxChoices == 2

ContentFrags == {<<" ">>, <<"S","E","L","E","C","T"," ","1">>, <<"\n">>}

\* message.content of a choice
Contents == Concats(ContentFrags, MaxContentFrags) \cup {None}

RECURSIVE ChoiceLists(_)
ChoiceLists(n) ==
    IF n = 0 THEN {<<>>}
    ELSE ChoiceLists(n - 1)
             \cup {Append(l, c) : l \in {x \in ChoiceLists(n - 1) : Len(x) = n - 1},
                                  c \in Contents}

Responses ==
    {Raised(cls) : cls \in DOMAIN ExceptionBase \ {"BaseException"}}
        \cup {Response(l) : l \in ChoiceLists(MaxChoices)}

InitOpenAI ==
    /\ db = InitialDb
    /\ ValidatorIdle
    /\ CleanIdle
    /\ CatalogIdle
    /\ RankIdle
    /\ PipelineIdle
    /\ RefreshIdle
    /\ RepairIdle
    /\ TeardownIdle
    /\ oPc = "ready"
    /\ oResponse = [kind |-> "none"]
    /\ oReturn = [raised |-> FALSE]

\* one call of generate_sql
GenerateSql ==
    /\ oPc = "ready"
    /\ \E response \in Responses :
           /\ oResponse' = response
           /\ oReturn' = generate_sql(response)
    /\ oPc' = "returned"
    /\ UNCHANGED <<tdVars, fixVars, refVars, db, valVars, cleanVars, catVars, rankVars, pipeVars>>

NextOpenAI == GenerateSql

SpecOpenAI == InitOpenAI /\ [][NextOpenAI]_vars

\* the request failed: an API, network or other error was raised, the choice
\* list is empty, or the first choice has no content
RequestFailed ==
    \/ oResponse.kind = "raise" /\ IsInstance(oResponse.class, "Exception")
    \/ oResponse.kind = "response" /\ oResponse.choices = <<>>
    \/ oResponse.kind = "response" /\ Len(oResponse.choices) > 0
           /\ oResponse.choices[1] = None

\* C16: generate_sql returns None and does not raise on every request
\* failure: authentication error, rate limit, API or network error, an empty
\* choice list, a choice whose content is missing.
C16_FailuresReturnNone ==
    (oPc = "returned" /\ RequestFailed) =>
        /\ ~oReturn.raised
        /\ oReturn.value = None

\* the content of the first choice is missing and None came back
C16_Witness ==
    /\ oPc = "returned"
    /\ oResponse.kind = "response"
    /\ Len(oResponse.choices) = MaxChoices
    /\ oResponse.choices[1] = None
    /\ oReturn.value = None

-----------------------------------------------------------------------------
\* refresh_context while process_question calls run on the same service
\* (app.run(threaded=True): each request has its own thread)

\* the databases a schema change leaves: orders and its mock table come and go
RefreshDbs ==
    {d \in [TableIds -> {Absent, Holding(SampleRows), Holding(UsersRows)}] :
        /\ d["users"] = Holding(UsersRows)
        /\ d["users_sample"] = Holding(SampleRows)
        /\ d["orders"] \in {Absent, Holding(SampleRows)}
        /\ d["orders_sample"] \in {Absent, Holding(SampleRows)}
        /\ d["table_descriptions"] = InitialDb["table_descriptions"]
        /\ d["column_descriptions"] = InitialDb["column_descriptions"]}

\* the candidates whose first validation the call may see fail
RepairQueries == {<<"S","E","L","E","C","T"," ","*"," ","F","R","O","M"," ","O","R","D","E","R","S">>, <<"S","E","L","E","C","T"," ","*"," ","F","R","O","M"," ","O","R","D","E","R","S","_","s","a","m","p","l","e">>}

NoFix == <<>>

InitRefresh ==
    /\ db = InitialDb
    /\ ValidatorIdle
    /\ CleanIdle
    /\ CatalogIdle
    /\ RankIdle
    /\ PipelineIdle
    /\ OpenAIIdle
    /\ RepairIdle
    /\ TeardownIdle
    /\ db_context = get_database_context("privacy", InitialDb, {})
    /\ prompt_context = get_database_context("privacy", InitialDb, {})
    /\ refPc = "idle"
    /\ refBefore = <<>>
    /\ qPc = "ready"
    /\ qPromptContext = NoContext
    /\ qFixContext = NoContext
    /\ qFixed = NoFix

\* a table is created or dropped by whoever maintains the database
SchemaChange ==
    /\ \E d \in RefreshDbs \ {db} : db' = d
    /\ UNCHANGED <<tdVars, fixVars, valVars, cleanVars, catVars, rankVars, pipeVars, aiVars, refVars>>

\* _initialize_context with the first assignment made before the call of
\* get_database_context has returned
initialize_context_clearing(old_db_context, fetched) ==
    [db_context |-> fetched, raised |-> ~fetched.ok]

\* _initialize_context, first statement: self.db_context =
\* get_database_context(); fetched is NoContext when the call raised, and
\* then nothing is assigned and the except clause raises again
initialize_context(old_db_context, fetched) ==
    IF fetched.ok THEN [db_context |-> fetched, raised |-> FALSE]
    ELSE [db_context |-> old_db_context, raised |-> TRUE]

\* refresh_context up to the first assignment of _initialize_context; the
\* query on sqlite_master raises or not
AssignDbContext ==
    /\ refPc = "idle"
    /\ \E fails \in BOOLEAN :
           LET fetched == IF fails THEN NoContext
                          ELSE get_database_context("privacy", db, {})
               r == initialize_context(db_context, fetched)
           IN  /\ db_context' = r.db_context
               /\ refPc' = IF r.raised THEN "raised" ELSE "half"
    /\ refBefore' = <<db_context, prompt_context>>
    /\ UNCHANGED <<tdVars, fixVars, db, valVars, cleanVars, catVars, rankVars, pipeVars, aiVars,
                   prompt_context, qPc, qPromptContext, qFixContext, qFixed>>

\* refresh_context raised: refresh_schema answers 500 and the service goes on
RefreshRaised ==
    /\ refPc = "raised"
    /\ refPc' = "idle"
    /\ UNCHANGED <<tdVars, fixVars, db, valVars, cleanVars, catVars, rankVars, pipeVars, aiVars,
                   db_context, prompt_context, refBefore, qPc, qPromptContext,
                   qFixContext, qFixed>>

\* _initialize_context, second statement:
\* self.prompt_generator = PromptGenerator(self.db_context)
AssignPromptGenerator ==
    /\ refPc = "half"
    /\ prompt_context' = db_context
    /\ refPc' = "idle"
    /\ UNCHANGED <<tdVars, fixVars, db, valVars, cleanVars, catVars, rankVars, pipeVars, aiVars,
                   db_context, refBefore, qPc, qPromptContext, qFixContext, qFixed>>

\* process_question up to the prompt: create_secure_prompt reads
\* self.prompt_generator
ReadPromptGenerator ==
    /\ qPc = "ready"
    /\ qPromptContext' = prompt_context
    /\ qPc' = "prompted"
    /\ UNCHANGED <<tdVars, fixVars, db, valVars, cleanVars, catVars, rankVars, pipeVars, aiVars,
                   db_context, prompt_context, refPc, refBefore, qFixContext, qFixed>>

\* process_question after a failed validation: attempt_query_fix reads
\* self.db_context
ReadDbContext ==
    /\ qPc = "prompted"
    /\ \E sql_query \in RepairQueries :
           /\ ~validate_syntax(db, sql_query).is_valid
           /\ qFixed' = attempt_query_fix_secure(db_context, sql_query,
                                                 validate_syntax(db, sql_query).error)
    /\ qFixContext' = db_context
    /\ qPc' = "repaired"
    /\ UNCHANGED <<tdVars, fixVars, db, valVars, cleanVars, catVars, rankVars, pipeVars, aiVars,
                   db_context, prompt_context, refPc, refBefore, qPromptContext>>

\* process_question returns, with or without a repair
Return ==
    /\ qPc \in {"prompted", "repaired"}
    /\ qPc' = "ready"
    /\ qPromptContext' = NoContext
    /\ qFixContext' = NoContext
    /\ qFixed' = NoFix
    /\ UNCHANGED <<tdVars, fixVars, db, valVars, cleanVars, catVars, rankVars, pipeVars, aiVars,
                   db_context, prompt_context, refPc, refBefore>>

NextRefresh ==
    \/ SchemaChange
    \/ AssignDbContext
    \/ RefreshRaised
    \/ AssignPromptGenerator
    \/ ReadPromptGenerator
    \/ ReadDbContext
    \/ Return

SpecRefresh == InitRefresh /\ [][NextRefresh]_vars

\* C15: with refresh_context running beside it, a process_question call
\* works from one snapshot: the catalog its repair step reads is the catalog
\* its prompt was built from.
C15_OneSnapshotPerCall ==
    qPc = "repaired" => qFixContext = qPromptContext

-----------------------------------------------------------------------------
\* the place of the table in all_tables
CatalogIndex(table) == CHOOSE k \in 1..Len(rContext.tables) : rContext.tables[k] = table

\* the tables that come before table k in the ordering by score descending,
\* catalog order among equals
Before(scores, k) ==
    {j \in 1..Len(scores) : scores[j] > scores[k] \/ (scores[j] = scores[k] /\ j < k)}

\* C21: when a table scores above 0, get_relevant_tables returns only tables
\* that score above 0, by score descending, tables of equal score in catalog
\* order, and exactly the scoring tables among the first max_tables of that
\* ordering.
C21_RankOrder ==
    rPc \in {"first", "second"} =>
        LET scores == TableScores(rContext, rQuestion)
        IN  (\E k \in 1..Len(scores) : scores[k] > 0) =>
                /\ \A a \in 1..Len(rFirst) : scores[CatalogIndex(rFirst[a])] > 0
                /\ \A a, b \in 1..Len(rFirst) :
                       a < b => CatalogIndex(rFirst[a]) \in
                                    Before(scores, CatalogIndex(rFirst[b]))
                /\ {rFirst[a] : a \in 1..Len(rFirst)} =
                       {rContext.tables[k] : k \in {i \in 1..Len(scores) :
                           scores[i] > 0 /\ Cardinality(Before(scores, i)) < rMax}}

\* two returned tables share a score, a scoring table is cut off and a table
\* that scores nothing is in the catalog
C21_Witness ==
    /\ rPc = "first"
    /\ LET scores == TableScores(rContext, rQuestion)
       IN  /\ \E a, b \in 1..Len(rFirst) :
                  a < b /\ scores[CatalogIndex(rFirst[a])] = scores[CatalogIndex(rFirst[b])]
           /\ \E a, b \in 1..Len(rFirst) :
                  scores[CatalogIndex(rFirst[a])] > scores[CatalogIndex(rFirst[b])]
           /\ \E k \in 1..Len(scores) :
                  scores[k] > 0 /\ \A a \in 1..Len(rFirst) : rFirst[a] # rContext.tables[k]

\* the score the rules give the k-th table of the ranker's catalog for its
\* question, each rule counted on its own
RuleScore(k) ==
    LET q == lower(rQuestion)
        schema == rContext.schemas[k]
        name == lower(schema.name)
        Occurs(text) == Contains(q, lower(text))
        PartOccurs(text) == \E part \in WordSet(SplitOn(lower(text), "_")) : Contains(q, part)
        columns == 1..Len(schema.columns)
        descs == rContext.column_descriptions[k]
        q_words == WordSet(SplitWords(q))
        shared == {w \in q_words : w \in WordSet(SplitWords(lower(schema.description)))}
    IN  (IF Occurs(name) THEN 100 ELSE 0)
        + (IF PartOccurs(name) THEN 50 ELSE 0)
        + 30 * Cardinality({c \in columns : Occurs(schema.columns[c])})
        + 15 * Cardinality({c \in columns : PartOccurs(schema.columns[c])})
        + 10 * Cardinality(shared)
        + 5 * Cardinality({c \in 1..Len(descs) :
                              \E w \in q_words : Contains(lower(descs[c]), w)})

\* C22: the score of a table is 100 for its name in the question, 50 for a
\* part of its name, 30 per column named, 15 per column with a part named,
\* 10 per word shared with its description and 5 per column description
\* holding a question word; a table named in the question scores 100 or more.
C22_ScoreRules ==
    rPc \in {"first", "second"} =>
        LET scores == TableScores(rContext, rQuestion)
        IN  \A k \in 1..Len(scores) :
                /\ scores[k] = RuleScore(k)
                /\ Contains(lower(rQuestion), lower(rContext.schemas[k].name)) =>
                       scores[k] >= 100

\* orders is named in the question, so are a column and a part of a column,
\* and a column description holds a question word
C22_Witness ==
    /\ rPc = "first"
    /\ \E k \in 1..Len(rContext.tables) :
           /\ rContext.tables[k] = "orders"
           /\ Contains(lower(rQuestion), TableName["orders"])
           /\ TableScores(rContext, rQuestion)[k] = 215

-----------------------------------------------------------------------------
\* C23: the output of clean_and_secure_sql is one line, has no white space
\* at either end and no two white-space characters in a row, and ends with
\* exactly one ';'.
C23_OneLineOneTerminator ==
    (cVariant = "secure" /\ cPc \in {"cleaned", "recleaned"}) =>
        /\ \A i \in 1..Len(cOnce) : IsSpace(cOnce[i]) => cOnce[i] = " "
        /\ cOnce = strip(cOnce)
        /\ \A i \in 1..(Len(cOnce) - 1) : ~(IsSpace(cOnce[i]) /\ IsSpace(cOnce[i + 1]))
        /\ EndsWith(cOnce, <<";">>)
        /\ ~EndsWith(cOnce, <<";",";">>)

\* C24: cleaning one statement wrapped in ```sql ... ```, with white space
\* around it, returns that statement, nothing changed and nothing lost.
C24_FencedStatementKept ==
    cPc \in {"cleaned", "recleaned"} =>
        \A pad \in Pads, statement \in FencedStatements :
            cRaw = Fenced(pad, statement) => cOnce = statement

-----------------------------------------------------------------------------
\* attempt_query_fix of the three services, on a query and the error of
\* its failed validation

\* the context with the columns of its k-th table named as given
WithColumns(context, k, columns) ==
    [context EXCEPT !.schemas = [@ EXCEPT ![k] = [@ EXCEPT !.columns = columns]]]

\* the context of a database whose users and orders tables both have a
\* total column, written Total in one and TOTAL in the other
RecasedContext ==
    WithColumns(WithColumns(get_database_context("privacy", InitialDb, {}),
                            1, <<<<"i","d">>, <<"n","a","m","e">>, <<"T","o","t","a","l">>>>),
                2, <<<<"i","d">>, <<"u","s","e","r","_","i","d">>, <<"T","O","T","A","L">>>>)

\* the db_context the service of the variant may hold
RepairContexts(variant) ==
    IF variant = "secure"
    THEN {get_database_context("privacy", InitialDb, {}), RecasedContext}
    ELSE {get_database_context("open", InitialDb, {})}

RepairInputs ==
    {<<"S","E","L","E","C","T"," ","t","o","t","a","l"," ","F","R","O","M"," ","u","s","e","r","s">>, <<"S","E","L","E","C","T"," ","T","o","t","a","l"," ","F","R","O","M"," ","O","R","D","E","R","S">>, <<"S","E","L","E","C","T"," ","*"," ","F","R","O","M"," ","O","R","D","E","R","S">>,
     <<"S","E","L","E","C","T"," ","*"," ","F","R","O","M"," ","U","s","e","r","s",";">>, <<"S","E","L","E","C","T"," ","N","A","M","E"," ","F","R","O","M"," ","u","s","e","r","s"," ","W","H","E","R","E"," ","n","a","m","e"," ","="," ","'","O","r","d","e","r","s","'">>,
     <<"S","E","L","E","C","T"," ","*"," ","F","R","O","M"," ","u","s","e","r","s","_","s","a","m","p","l","e">>, <<"S","E","L","E","C","T"," ","I","D",","," ","i","d"," ","F","R","O","M"," ","u","s","e","r","s"," ","u">>}

RepairErrors ==
    {SyntaxError}
        \cup {NoSuchTable(t) : t \in {<<"O","R","D","E","R","S">>, <<"U","s","e","r","s">>, <<"u","s","e","r","s","_","s","a","m","p","l","e">>}}
        \cup {NoSuchColumn(c) : c \in {<<"t","o","t","a","l">>, <<"T","o","t","a","l">>, <<"N","A","M","E">>, <<"I","D">>, <<"n","a","m">>}}

InitRepair ==
    /\ db = InitialDb
    /\ ValidatorIdle
    /\ CleanIdle
    /\ CatalogIdle
    /\ RankIdle
    /\ PipelineIdle
    /\ OpenAIIdle
    /\ RefreshIdle
    /\ TeardownIdle
    /\ fPc = "call"
    /\ fVariant \in Variants
    /\ fContext \in RepairContexts(fVariant)
    /\ fQuery \in RepairInputs
    /\ fError \in RepairErrors
    /\ fFixed = <<>>

\* one call of attempt_query_fix
AttemptQueryFix ==
    /\ fPc = "call"
    /\ fFixed' = attempt_query_fix(fVariant, fContext, fQuery, fError)
    /\ fPc' = "fixed"
    /\ UNCHANGED <<tdVars, db, valVars, cleanVars, catVars, rankVars, pipeVars, aiVars, refVars,
                   fVariant, fContext, fQuery, fError>>

NextRepair == AttemptQueryFix

SpecRepair == InitRepair /\ [][NextRepair]_vars

\* C25: repair changes only the letter case of identifiers: the repaired
\* query equals the query when both are compared without regard to case, so
\* no token is added, removed or moved.
C25_RepairOnlyRecases ==
    (fPc = "fixed" /\ fVariant \in {"secure", "basic"}) => lower(fFixed) = lower(fQuery)

\* the columns of the context that are the identifier in some letter case,
\* as pairs <<table place, column place>>
SameColumns(context, identifier) ==
    {tc \in (1..Len(context.schemas)) \X (1..3) :
        /\ tc[2] <= Len(context.schemas[tc[1]].columns)
        /\ lower(context.schemas[tc[1]].columns[tc[2]]) = lower(identifier)}

\* the first of them, in catalog order over tables and then columns
FirstColumn(context, identifier) ==
    LET same == SameColumns(context, identifier)
        first == CHOOSE tc \in same : \A o \in same :
                     tc[1] < o[1] \/ (tc[1] = o[1] /\ tc[2] <= o[2])
    IN  context.schemas[first[1]].columns[first[2]]

\* C26: when the error names an unknown column, attempt_query_fix writes
\* every occurrence of that identifier as the first column, over tables and
\* then columns, that equals it without regard to case; a later table with
\* the column in another case does not change that.
C26_FirstColumnWins ==
    (/\ fPc = "fixed"
     /\ fVariant = "secure"
     /\ fError.err = "no such column"
     /\ SameColumns(fContext, fError.name) # {}
     /\ ~HasMockIdentifier(fQuery)) =>
        fFixed = ReplaceWord(fQuery, 1, FirstColumn(fContext, fError.name))

-----------------------------------------------------------------------------
\* C27: in privacy mode no statement that process_question hands to
\* execute_safe_query names a table that ends in the mock suffix _sample,
\* whatever the completion.
C27_NoMockTableExecuted ==
    (pPc = "answered" /\ pVariant = "secure") =>
        \A i \in CallsOf("execute_safe_query") : ~HasMockIdentifier(pResult.calls[i].arg)

-----------------------------------------------------------------------------
\* C28: when refresh_context fails because get_database_context raises, the
\* service keeps its state: db_context and the prompt generator's context
\* are what they were, both the same snapshot, and a process_question call
\* made then works from it.
C28_FailedRefreshKeepsState ==
    refPc = "raised" =>
        /\ <<db_context, prompt_context>> = refBefore
        /\ db_context = prompt_context
        /\ db_context.ok
        /\ qPc = "repaired" => qFixContext.ok

\* the refresh failed after the schema had changed, and a call that started
\* before it repairs its query from the kept snapshot
C28_Witness ==
    /\ refPc = "raised"
    /\ db # InitialDb
    /\ qPc = "repaired"
    /\ qFixContext = db_context
    /\ qPromptContext = db_context

-----------------------------------------------------------------------------
\* request threads on the one DatabaseManager of the app: each runs
\* execute_safe_query on a validated query and then the teardown close_db

MaxConnections == 3

Requests == {1, 2}

ValidatedQueries == {<<"S","E","L","E","C","T"," ","n","a","m","e"," ","F","R","O","M"," ","u","s","e","r","s">>, <<"s","e","l","e","c","t"," ","*"," ","f","r","o","m"," ","U","S","E","R","S"," ","L","I","M","I","T"," ","5",";">>}

ClosedError == "SQL Error: Cannot operate on a closed database."

NoQuery == <<>>

InitTeardown ==
    /\ db = InitialDb
    /\ ValidatorIdle
    /\ CleanIdle
    /\ CatalogIdle
    /\ RankIdle
    /\ PipelineIdle
    /\ OpenAIIdle
    /\ RefreshIdle
    /\ RepairIdle
    /\ connection_ = 1
    /\ connState = [c \in 1..MaxConnections |-> IF c = 1 THEN "open" ELSE "unopened"]
    /\ tPc = [t \in Requests |-> "start"]
    /\ tCursor = [t \in Requests |-> 0]
    /\ tQuery = [t \in Requests |-> NoQuery]
    /\ tRet = [t \in Requests |-> NoRet]

\* execute_safe_query ends in its except sqlite3.Error clause
ClosedUnder(t) ==
    /\ tRet' = [tRet EXCEPT ![t] = [success |-> FALSE, error |-> ClosedError,
                                    row_count |-> 0, query |-> Null]]
    /\ tPc' = [tPc EXCEPT ![t] = "returned"]
    /\ tCursor' = [tCursor EXCEPT ![t] = 0]

\* DatabaseManager.connection: _connection, a new connection in it when it
\* is None
connection(current, states) ==
    IF current # 0 THEN [conn |-> current, states |-> states]
    ELSE LET new == Min({c \in DOMAIN states : states[c] = "unopened"})
         IN  [conn |-> new, states |-> [states EXCEPT ![new] = "open"]]

\* execute_safe_query up to cursor = self.db_manager.connection.cursor()
GetCursor(t) ==
    /\ tPc[t] = "start"
    /\ connection_ # 0 \/ \E c \in DOMAIN connState : connState[c] = "unopened"
    /\ \E query \in ValidatedQueries :
           /\ validate_syntax(db, query).is_valid
           /\ is_safe_query(query)
           /\ tQuery' = [tQuery EXCEPT ![t] = query]
    /\ LET r == connection(connection_, connState)
       IN  /\ connection_' = r.conn
           /\ connState' = r.states
           /\ IF r.states[r.conn] = "open"
              THEN /\ tCursor' = [tCursor EXCEPT ![t] = r.conn]
                   /\ tPc' = [tPc EXCEPT ![t] = "cursor"]
                   /\ UNCHANGED tRet
              ELSE ClosedUnder(t)
    /\ UNCHANGED <<db, valVars, cleanVars, catVars, rankVars, pipeVars, aiVars, refVars,
                   fixVars>>

\* cursor.execute(query)
CursorExecute(t) ==
    /\ tPc[t] = "cursor"
    /\ IF connState[tCursor[t]] = "open"
       THEN /\ tPc' = [tPc EXCEPT ![t] = "executed"]
            /\ UNCHANGED <<tCursor, tRet>>
       ELSE ClosedUnder(t)
    /\ UNCHANGED <<db, valVars, cleanVars, catVars, rankVars, pipeVars, aiVars, refVars,
                   fixVars, connection_, connState, tQuery>>

\* cursor.fetchall() and the return of execute_safe_query
CursorFetchAll(t) ==
    /\ tPc[t] = "executed"
    /\ IF connState[tCursor[t]] = "open"
       THEN /\ tRet' = [tRet EXCEPT ![t] =
                           LET r == execute_safe_query(db, tQuery[t], DefaultLimit)
                           IN  [success |-> r.success, error |-> r.error,
                                row_count |-> r.row_count, query |-> r.query]]
            /\ tPc' = [tPc EXCEPT ![t] = "returned"]
            /\ tCursor' = [tCursor EXCEPT ![t] = 0]
       ELSE ClosedUnder(t)
    /\ UNCHANGED <<db, valVars, cleanVars, catVars, rankVars, pipeVars, aiVars, refVars,
                   fixVars, connection_, connState, tQuery>>

\* close_db at the end of the request: DatabaseManager.close up to
\* self._connection.close()
CloseConnection(t) ==
    /\ tPc[t] = "returned"
    /\ IF connection_ # 0
       THEN /\ connState' = [connState EXCEPT ![connection_] = "closed"]
            /\ tPc' = [tPc EXCEPT ![t] = "closing"]
       ELSE /\ tPc' = [tPc EXCEPT ![t] = "done"]
            /\ UNCHANGED connState
    /\ UNCHANGED <<db, valVars, cleanVars, catVars, rankVars, pipeVars, aiVars, refVars,
                   fixVars, connection_, tCursor, tQuery, tRet>>

\* DatabaseManager.close: self._connection = None
ClearConnection(t) ==
    /\ tPc[t] = "closing"
    /\ connection_' = 0
    /\ tPc' = [tPc EXCEPT ![t] = "done"]
    /\ UNCHANGED <<db, valVars, cleanVars, catVars, rankVars, pipeVars, aiVars, refVars,
                   fixVars, connState, tCursor, tQuery, tRet>>

\* the thread takes the next request
NextRequest(t) ==
    /\ tPc[t] = "done"
    /\ tPc' = [tPc EXCEPT ![t] = "start"]
    /\ tQuery' = [tQuery EXCEPT ![t] = NoQuery]
    /\ tRet' = [tRet EXCEPT ![t] = NoRet]
    /\ UNCHANGED <<db, valVars, cleanVars, catVars, rankVars, pipeVars, aiVars, refVars,
                   fixVars, connection_, connState, tCursor>>

NextTeardown ==
    \/ \E t \in Requests : GetCursor(t)
    \/ \E t \in Requests : CursorExecute(t)
    \/ \E t \in Requests : CursorFetchAll(t)
    \/ \E t \in Requests : CloseConnection(t)
    \/ \E t \in Requests : ClearConnection(t)
    \/ \E t \in Requests : NextRequest(t)

SpecTeardown == InitTeardown /\ [][NextTeardown]_vars

\* C29: the teardown of one request does not make another request fail: a
\* request whose query passed validation is executed on an open connection
\* and is never answered with the SQL error of a closed connection.
C29_TeardownHarmless ==
    \A t \in DOMAIN tRet : tRet[t].error # ClosedError

-----------------------------------------------------------------------------
\* C30: the fields of validate_security_compliance agree for every catalog,
\* the empty one too: is_fully_compliant exactly when security_level is
\* FULLY_COMPLIANT, exactly when missing_mock_tables is empty, and
\* compliant_tables = total_tables - |missing_mock_tables| is in
\* 0..total_tables.
C30_ComplianceFieldsAgree ==
    catPc = "validated" =>
        /\ catCompliance.is_fully_compliant <=>
               catCompliance.security_level = "FULLY_COMPLIANT"
        /\ catCompliance.security_level = "FULLY_COMPLIANT" <=>
               catCompliance.missing_mock_tables = <<>>
        /\ catCompliance.compliant_tables =
               catCompliance.total_tables - Len(catCompliance.missing_mock_tables)
        /\ catCompliance.compliant_tables \in 0..catCompliance.total_tables

=============================================================================
